---- MODULE Spec2Model ----
(***************************************************************************)
(* Area-graph contraction and refinement of osmAG-from-cad:                *)
(*   RMG::AreaGraph      (src/area_graph_segment/src/roomGraph.cpp)         *)
(*   RMG::RoomProcessor  (src/area_graph_segment/src/room/RoomProcessor.cpp)*)
(*   RMG::PolygonProcessor (.../src/polygon/PolygonProcessor.cpp)           *)
(* roomVertex and passageEdge objects live on a heap indexed by positive   *)
(* integers (the pointer values); originSet and passageEList hold pointers.*)
(***************************************************************************)
EXTENDS Integers, Sequences, FiniteSets, TLC

\* ---------------------------------------------------------------- bounds
MaxVertices == 3      \* roomVertex objects produced by the builder
MaxPassages == 2      \* passageEdge objects produced by the builder
MaxRoomId   == 1      \* largest roomId handed out by room detection

Null == 0             \* the NULL pointer

RoomIds == (-1) .. MaxRoomId

\* ---------------------------------------------------------------- state
VARIABLES
    roomVertex,     \* heap: pointer -> roomVertex object
    passageEdge,    \* heap: pointer -> passageEdge object
    originSet,      \* AreaGraph::originSet   (std::vector<roomVertex*>)
    passageEList,   \* AreaGraph::passageEList (std::list<passageEdge*>)
    freed,          \* roomVertex pointers that have been passed to delete
    pc,             \* position of the caller in the pipeline
    pre,            \* the graph as it was when the last operation was called
    args            \* the arguments of the last call

vars == <<roomVertex, passageEdge, originSet, passageEList, freed, pc, pre, args>>

\* ---------------------------------------------------------------- helpers
Range(s) == {s[i] : i \in DOMAIN s}

MaxOf(S) == CHOOSE x \in S : \A y \in S : y <= x

Remove(s, x) == SelectSeq(s, LAMBDA e : e # x)

Count(s, x) == Cardinality({i \in DOMAIN s : s[i] = x})

NoDup(s) == \A i, j \in DOMAIN s : s[i] = s[j] => i = j

DupFreeSeqs(S, n) ==
    {s \in UNION {[1..k -> S] : k \in 0..n} : NoDup(s)}

\* the pointer returned by the next `new roomVertex`
NewPtr(heap) == IF DOMAIN heap = {} THEN 1 ELSE MaxOf(DOMAIN heap) + 1

Snapshot == [roomVertex |-> roomVertex, passageEdge |-> passageEdge,
             originSet |-> originSet, passageEList |-> passageEList]

\* roomVertex::roomVertex(roomId, loc, st, ed): parentV = NULL, containers empty
NewRoomVertex(id) ==
    [roomId |-> id, passages |-> <<>>, neighbours |-> {}, parentV |-> Null,
     polygons |-> <<>>, polygon |-> <<>>]

\* ------------------------------------------------- buildAreaGraph (result)
\* ca[p] is the connectedAreas vector of the p-th passage vertex visited.
\* passages of the builder vertex v, in passage creation order
RECURSIVE PassagesOf(_, _, _)
PassagesOf(v, ca, p) ==
    IF p > Len(ca) THEN <<>>
    ELSE (IF v \in Range(ca[p]) THEN <<p>> ELSE <<>>) \o PassagesOf(v, ca, p + 1)

\* the passage whose visit created v (lines 441-474)
Creator(v, ca) == Head(PassagesOf(v, ca, 1))

\* What the loop of buildAreaGraph can produce: a roomVertex is created for a
\* half-edge pair the first time one of its (at most two) end vertices is
\* visited as a passage and is pushed to originSet and to connectedAreas at
\* once (lines 465-474); the other end vertex finds it in hE2rV and links it
\* unless already linked (lines 497-508).
BuilderShaped(nv, ca) ==
    /\ \A v \in 1..nv : Len(PassagesOf(v, ca, 1)) \in {1, 2}
    /\ \A v, w \in 1..nv : v < w => Creator(v, ca) <= Creator(w, ca)
    /\ \A p \in DOMAIN ca : \A i, j \in DOMAIN ca[p] :
          (i < j /\ Creator(ca[p][i], ca) = p /\ Creator(ca[p][j], ca) = p)
              => ca[p][i] < ca[p][j]

BuiltGraphs ==
    UNION {{[nv |-> nv, ca |-> ca] :
               ca \in {c \in [1..np -> DupFreeSeqs(1..nv, nv)] : BuilderShaped(nv, c)}} :
           nv \in 0..MaxVertices, np \in 0..MaxPassages}

\* every builder vertex carries the two path faces of its half-edge pair
BuiltGraph(nv, rid, ca) ==
    /\ roomVertex = [v \in 1..nv |->
          [NewRoomVertex(rid[v]) EXCEPT !.passages = PassagesOf(v, ca, 1),
                                        !.polygons = <<2 * v - 1, 2 * v>>]]
    /\ passageEdge = [p \in 1..Len(ca) |-> [connectedAreas |-> ca[p]]]
    /\ originSet = [i \in 1..nv |-> i]
    /\ passageEList = [i \in 1..Len(ca) |-> i]

Init ==
    /\ \E g \in BuiltGraphs : \E rid \in [1..g.nv -> RoomIds] :
          BuiltGraph(g.nv, rid, g.ca)
    /\ freed = {}
    /\ pc = "built"
    /\ pre = [roomVertex |-> roomVertex, passageEdge |-> passageEdge,
              originSet |-> originSet, passageEList |-> passageEList]
    /\ args = <<>>

\* ------------------------------------------------------------ mergeAreas
\* mutant of InnerPassage: decided by one matching area instead of all
InnerPassageAny(ca, g, RV) == \E i \in DOMAIN ca : RV[ca[i]].roomId = g

\* lines 100-108: the passage is inner iff every connected area has the
\* group's roomId
InnerPassage(ca, g, RV) == \A i \in DOMAIN ca : RV[ca[i]].roomId = g

\* mutant of CollapseGroup: every area of the group is overwritten, none erased
CollapseGroupKeepAll(ca, g, big, RV, first) ==
    [i \in DOMAIN ca |-> IF RV[ca[i]].roomId = g THEN big ELSE ca[i]]

\* lines 111-125: the first area of the group becomes biggerRoom, the other
\* areas of the group are erased (the iterator stays on the slot that the
\* erase shifted the next element into)
RECURSIVE CollapseGroup(_, _, _, _, _)
CollapseGroup(ca, g, big, RV, first) ==
    IF ca = <<>> THEN <<>>
    ELSE IF RV[Head(ca)].roomId = g
         THEN (IF first THEN <<big>> ELSE <<>>)
                  \o CollapseGroup(Tail(ca), g, big, RV, FALSE)
         ELSE <<Head(ca)>> \o CollapseGroup(Tail(ca), g, big, RV, first)

\* lines 95-133, one passage of the member
MergePassage(st, p, g, big) ==
    LET ca == st.pe[p].connectedAreas IN
    IF InnerPassage(ca, g, st.rv)
    THEN [st EXCEPT !.pel = Remove(@, p)]
    ELSE LET ca2 == IF Len(ca) > 1
                    THEN CollapseGroup(ca, g, big, st.rv, TRUE)
                    ELSE [ca EXCEPT ![Len(ca)] = big]
         IN [st EXCEPT !.pe[p].connectedAreas = ca2,
                       !.rv[big].passages = Append(@, p)]

RECURSIVE MergePassages(_, _, _, _)
MergePassages(st, ps, g, big) ==
    IF ps = <<>> THEN st
    ELSE MergePassages(MergePassage(st, Head(ps), g, big), Tail(ps), g, big)

\* lines 61-135, one element of originSet
MergeMember(st, v) ==
    LET g == st.rv[v].roomId IN
    IF g = -1 \/ g = -2 THEN st
    ELSE LET isNew == g \notin DOMAIN st.rtm
             big   == IF isNew THEN NewPtr(st.rv) ELSE st.rtm[g][1]
             rv1   == IF isNew THEN st.rv @@ (big :> NewRoomVertex(g)) ELSE st.rv
             rtm1  == IF isNew THEN st.rtm @@ (g :> <<big, v>>)
                      ELSE [st.rtm EXCEPT ![g] = Append(@, v)]
             rv2   == [rv1 EXCEPT ![big].polygons = @ \o rv1[v].polygons]
         IN MergePassages([st EXCEPT !.rv = rv2, !.rtm = rtm1],
                          rv2[v].passages, g, big)

RECURSIVE MergeMembers(_, _)
MergeMembers(st, os) ==
    IF os = <<>> THEN st
    ELSE MergeMembers(MergeMember(st, Head(os)), Tail(os))

\* mutant of EraseMembers: the loop starts one element too late
EraseMembersSkipFirst(os, members) ==
    IF members = <<>> THEN os
    ELSE SelectSeq(os, LAMBDA e : e \notin Range(Tail(members)))

\* lines 144-148: erase-remove and delete every member of one group
RECURSIVE EraseMembers(_, _)
EraseMembers(os, members) ==
    IF members = <<>> THEN os
    ELSE EraseMembers(Remove(os, Head(members)), Tail(members))

\* lines 136-150: the groups in ascending roomId order (std::map)
RECURSIVE ReplaceGroups(_, _, _)
ReplaceGroups(os, rtm, todo) ==
    IF todo = {} THEN os
    ELSE LET g == CHOOSE x \in todo : \A y \in todo : x <= y
         IN ReplaceGroups(Append(EraseMembers(os, Tail(rtm[g])), rtm[g][1]),
                          rtm, todo \ {g})

MergeAreasResult ==
    LET st == MergeMembers([rv |-> roomVertex, pe |-> passageEdge,
                            pel |-> passageEList, rtm |-> <<>>], originSet)
    IN [rv |-> st.rv, pe |-> st.pe, pel |-> st.pel, rtm |-> st.rtm,
        os |-> ReplaceGroups(originSet, st.rtm, DOMAIN st.rtm),
        del |-> UNION {Range(Tail(st.rtm[g])) : g \in DOMAIN st.rtm}]

MergeAreas ==
    /\ pc = "built"
    /\ LET r == MergeAreasResult IN
         /\ roomVertex' = r.rv
         /\ passageEdge' = r.pe
         /\ passageEList' = r.pel
         /\ originSet' = r.os
         /\ freed' = freed \cup r.del
    /\ pre' = Snapshot
    /\ pc' = "areasMerged"
    /\ args' = <<>>

\* --------------------------------------------------------- mergeRoomCell
\* lines 181-191: the later elements of originSet that carry the group's id
LaterSameId(os, RV, g) ==
    SelectSeq(os, LAMBDA w : RV[w].roomId = g)

\* lines 207-213: neighbours are united, the polygon fragments of each member
\* are inserted in front of those gathered so far
RECURSIVE GatherNeighbours(_, _)
GatherNeighbours(members, RV) ==
    IF members = <<>> THEN {}
    ELSE RV[Head(members)].neighbours \cup GatherNeighbours(Tail(members), RV)

RECURSIVE GatherPolygons(_, _)
GatherPolygons(members, RV) ==
    IF members = <<>> THEN <<>>
    ELSE GatherPolygons(Tail(members), RV) \o RV[Head(members)].polygons

\* lines 166-215, one element of originSet
RoomCell(st, i) ==
    LET v == originSet[i]
        g == st.rv[v].roomId
    IN
    IF g = -1 \/ g = -2 THEN st
    ELSE LET tmpVec == <<v>> \o LaterSameId(SubSeq(originSet, i + 1, Len(originSet)),
                                             st.rv, g)
             big    == NewPtr(st.rv)
             bigV   == [NewRoomVertex(g) EXCEPT
                           !.neighbours = GatherNeighbours(tmpVec, st.rv),
                           !.polygons   = GatherPolygons(tmpVec, st.rv)]
             rv1    == [w \in DOMAIN st.rv |->
                           IF w \in Range(tmpVec)
                           THEN [st.rv[w] EXCEPT !.roomId = -2, !.parentV = big]
                           ELSE st.rv[w]]
         IN [rv |-> rv1 @@ (big :> bigV), newNodeSet |-> Append(st.newNodeSet, big)]

RECURSIVE RoomCells(_, _)
RoomCells(st, i) ==
    IF i > Len(originSet) THEN st
    ELSE RoomCells(RoomCell(st, i), i + 1)

MergeRoomCell ==
    /\ pc = "areasMerged"
    /\ LET st == RoomCells([rv |-> roomVertex, newNodeSet |-> <<>>], 1) IN
         /\ roomVertex' = st.rv
         /\ originSet' = originSet \o st.newNodeSet
    /\ pre' = Snapshot
    /\ pc' = "cellsMerged"
    /\ UNCHANGED <<passageEdge, passageEList, freed, args>>

\* -------------------------------------------------------------- prunning
\* lines 231-238: the neighbours of v that carry the tombstone id
Tombstoned(v) == {n \in roomVertex[v].neighbours :
                     n \in DOMAIN roomVertex /\ roomVertex[n].roomId = -2}

\* mutant of PrunedNeighbours: no neighbour is redirected
PrunedNeighboursKeep(v) == roomVertex[v].neighbours

\* lines 226-250: neighbours of every element of originSet are redirected
PrunedNeighbours(v) ==
    (roomVertex[v].neighbours \ Tombstoned(v))
        \cup {roomVertex[n].parentV : n \in Tombstoned(v)}

\* lines 236, 253-255: only tombstones met as a neighbour are collected
RemoveOriginSet == UNION {Tombstoned(v) : v \in Range(originSet)}

Prunning ==
    /\ pc = "cellsMerged"
    /\ roomVertex' = [v \in DOMAIN roomVertex |->
                        IF v \in Range(originSet)
                        THEN [roomVertex[v] EXCEPT !.neighbours = PrunedNeighbours(v)]
                        ELSE roomVertex[v]]
    /\ originSet' = SelectSeq(originSet, LAMBDA v : v \notin RemoveOriginSet)
    /\ pre' = Snapshot
    /\ pc' = "pruned"
    /\ UNCHANGED <<passageEdge, passageEList, freed, args>>

\* --------------------------------------------------------- arrangeRoomId
\* mutant of ArrangedId: tombstones are passed over and keep their id
ArrangedIdSkipTombstone(v) ==
    IF roomVertex[v].roomId = -2 THEN -2
    ELSE Cardinality({i \in DOMAIN originSet :
                         /\ i < MaxOf({k \in DOMAIN originSet : originSet[k] = v})
                         /\ roomVertex[originSet[i]].roomId # -2})

\* lines 259-262: the element at (0-based) position i gets roomId i; when a
\* pointer is stored twice the later assignment wins
ArrangedId(v) ==
    MaxOf({i \in DOMAIN originSet : originSet[i] = v}) - 1

ArrangeRoomId ==
    /\ pc = "pruned"
    /\ roomVertex' = [v \in DOMAIN roomVertex |->
                        IF v \in Range(originSet)
                        THEN [roomVertex[v] EXCEPT !.roomId = ArrangedId(v)]
                        ELSE roomVertex[v]]
    /\ pre' = Snapshot
    /\ pc' = "arranged"
    /\ UNCHANGED <<passageEdge, passageEList, originSet, freed, args>>

\* ------------------------------------------------------- polygon geometry
\* A point is <<x, y>> with integer coordinates; a polygon is the std::list
\* of its points.  Areas are kept doubled and distances to the centroid are
\* kept scaled by the point count, so that every comparison the code makes
\* on doubles is decided exactly on integers.
Abs(x) == IF x < 0 THEN -x ELSE x

RECURSIVE SumSeq(_)
SumSeq(s) == IF s = <<>> THEN 0 ELSE Head(s) + SumSeq(Tail(s))

\* largest r with r * r <= n
RECURSIVE FloorSqrtIn(_, _, _)
FloorSqrtIn(n, lo, hi) ==
    IF lo >= hi THEN lo
    ELSE LET mid == (lo + hi + 1) \div 2
         IN IF mid * mid <= n THEN FloorSqrtIn(n, mid, hi)
            ELSE FloorSqrtIn(n, lo, mid - 1)

FloorSqrt(n) == FloorSqrtIn(n, 0, IF n < 46340 THEN n ELSE 46340)

\* squared boost::geometry::distance of two points
Dist2(a, b) == (a[1] - b[1]) * (a[1] - b[1]) + (a[2] - b[2]) * (a[2] - b[2])

\* boost::geometry::distance along an edge of a polygon of the catalogue
\* (every such edge has an integer length)
Distance(a, b) == FloorSqrt(Dist2(a, b))

\* GeometryUtils::equalLineVertex: distance < 1e-6; between points with
\* integer coordinates the distance is 0 or at least 1
PointsEqual(a, b) == Dist2(a, b) < 1

\* GeometryUtils::calcPolyArea, doubled: |sum of x_j * y_i - y_j * x_i|
\* with j the cyclic predecessor of i
CalcPolyArea2(polygon) ==
    LET n == Len(polygon)
        prev(i) == IF i = 1 THEN n ELSE i - 1
    IN Abs(SumSeq([i \in 1..n |->
              polygon[prev(i)][1] * polygon[i][2]
                  - polygon[prev(i)][2] * polygon[i][1]]))

\* lines 280-284: coordinate sums; the centroid is <<sumX, sumY>> / count
CentroidSum(polygon) ==
    <<SumSeq([i \in DOMAIN polygon |-> polygon[i][1]]),
      SumSeq([i \in DOMAIN polygon |-> polygon[i][2]])>>

\* lines 293-308: length of the listed edges, plus the closing edge when the
\* list is not closed
Perimeter(polygon) ==
    SumSeq([i \in 1..(Len(polygon) - 1) |-> Distance(polygon[i], polygon[i + 1])])
      + (IF ~ PointsEqual(polygon[1], polygon[Len(polygon)])
         THEN Distance(polygon[Len(polygon)], polygon[1]) ELSE 0)

\* PolygonProcessor::calculatePolygonHash: the value mixed from area,
\* perimeter, centroid and vertex count; two polygons get the same hash
\* when these five features agree
CalculatePolygonHash(polygon) ==
    <<CalcPolyArea2(polygon), Perimeter(polygon),
      CentroidSum(polygon)[1], CentroidSum(polygon)[2], Len(polygon)>>

\* lines 373-384: squared distances of the points to the centroid, scaled by
\* count^2, sorted ascending
RECURSIVE Insert(_, _)
Insert(x, s) ==
    IF s = <<>> THEN <<x>>
    ELSE IF x <= Head(s) THEN <<x>> \o s ELSE <<Head(s)>> \o Insert(x, Tail(s))

RECURSIVE Sort(_)
Sort(s) == IF s = <<>> THEN <<>> ELSE Insert(Head(s), Sort(Tail(s)))

SortedDistances2(polygon) ==
    LET n == Len(polygon)
        c == CentroidSum(polygon)
    IN Sort([i \in 1..n |->
                 (n * polygon[i][1] - c[1]) * (n * polygon[i][1] - c[1])
               + (n * polygon[i][2] - c[2]) * (n * polygon[i][2] - c[2])])

\* |sqrt(q1) / n - sqrt(q2) / n| > 0.01 (DISTANCE_THRESHOLD), for the scaled
\* squared distances q1, q2:  100 * (sqrt hi - sqrt lo) > n
\*   <=>  10000 * (hi - lo) - n * n > 200 * n * sqrt lo
DistancesDiffer(q1, q2, n) ==
    LET hi == IF q1 >= q2 THEN q1 ELSE q2
        lo == IF q1 >= q2 THEN q2 ELSE q1
        l  == 10000 * (hi - lo) - n * n
    IN l > FloorSqrt(200 * n * 200 * n * lo)

\* PolygonProcessor::arePolygonsEqual
ArePolygonsEqual(poly1, poly2) ==
    IF Len(poly1) # Len(poly2) THEN FALSE
    ELSE IF poly1 = <<>> /\ poly2 = <<>> THEN TRUE
    ELSE IF 100 * Abs(CalcPolyArea2(poly1) - CalcPolyArea2(poly2)) > 2 THEN FALSE
    ELSE LET d1 == SortedDistances2(poly1)
             d2 == SortedDistances2(poly2)
         IN \A i \in DOMAIN d1 : ~ DistancesDiffer(d1[i], d2[i], Len(poly1))

\* ------------------------------------------------------ transferPassages
\* mutant of Redirect: source is always overwritten, target never looked for
RedirectAlways(ca, i, source, target) ==
    [k \in DOMAIN ca |-> IF ca[k] = source THEN target ELSE ca[k]]

\* RoomProcessor.cpp lines 108-128: every entry equal to source is replaced
\* by target, or erased when target is in the vector
RECURSIVE Redirect(_, _, _, _)
Redirect(ca, i, source, target) ==
    IF i > Len(ca) THEN ca
    ELSE IF ca[i] = source
         THEN IF target \in Range(ca)
              THEN Redirect(SubSeq(ca, 1, i - 1) \o SubSeq(ca, i + 1, Len(ca)),
                            i, source, target)
              ELSE Redirect([ca EXCEPT ![i] = target], i + 1, source, target)
         ELSE Redirect(ca, i + 1, source, target)

\* lines 92-129, one passage of source
TransferPassage(st, passage, source, target) ==
    [st EXCEPT
        !.rv[target].passages =
            IF passage \in Range(@) THEN @ ELSE Append(@, passage),
        !.pe[passage].connectedAreas = Redirect(@, 1, source, target)]

RECURSIVE TransferEach(_, _, _, _)
TransferEach(st, ps, source, target) ==
    IF ps = <<>> THEN st
    ELSE TransferEach(TransferPassage(st, Head(ps), source, target),
                      Tail(ps), source, target)

\* RoomProcessor::transferPassages, on the heaps st.rv and st.pe
TransferPassagesResult(st, source, target) ==
    LET st1 == TransferEach(st, st.rv[source].passages, source, target)
    IN [st1 EXCEPT !.rv[source].passages = <<>>]

TransferPassages ==
    /\ pc = "given"
    /\ \E source, target \in Range(originSet) :
          /\ source # target
          /\ LET st == TransferPassagesResult(
                           [rv |-> roomVertex, pe |-> passageEdge], source, target)
             IN /\ roomVertex' = st.rv
                /\ passageEdge' = st.pe
          /\ args' = [source |-> source, target |-> target]
    /\ pre' = Snapshot
    /\ pc' = "transferred"
    /\ UNCHANGED <<originSet, passageEList, freed>>

\* ------------------------------------------------ removeDuplicatePolygons
\* lines 28-42: the vertices with a non-empty polygon, bucketed by hash, each
\* bucket in originSet order
Bucket(h) ==
    SelectSeq(originSet, LAMBDA v :
        roomVertex[v].polygon # <<>>
            /\ CalculatePolygonHash(roomVertex[v].polygon) = h)

\* the hash values present, ordered by the first vertex that has them (the
\* buckets are disjoint, so the order of the map does not change the result)
RECURSIVE HashKeys(_, _)
HashKeys(os, seen) ==
    IF os = <<>> THEN <<>>
    ELSE LET poly == roomVertex[Head(os)].polygon
             h    == CalculatePolygonHash(poly)
         IN IF poly = <<>> \/ h \in seen THEN HashKeys(Tail(os), seen)
            ELSE <<h>> \o HashKeys(Tail(os), seen \cup {h})

\* mutant of DedupPairs: the break after discarding vertices[i] ends the
\* whole bucket
RECURSIVE DedupPairsBreakAll(_, _, _, _)
DedupPairsBreakAll(st, vertices, i, j) ==
    IF i > Len(vertices) THEN st
    ELSE IF j > Len(vertices) THEN DedupPairsBreakAll(st, vertices, i + 1, i + 2)
    ELSE LET vi == vertices[i]
             vj == vertices[j]
         IN IF ArePolygonsEqual(st.rv[vi].polygon, st.rv[vj].polygon)
            THEN IF st.rv[vi].roomId > st.rv[vj].roomId
                 THEN [TransferPassagesResult(st, vi, vj)
                          EXCEPT !.toRemove = Append(st.toRemove, vi),
                                 !.transfers = Append(st.transfers, <<vi, vj>>)]
                 ELSE DedupPairsBreakAll(
                          [TransferPassagesResult(st, vj, vi)
                              EXCEPT !.toRemove = Append(st.toRemove, vj),
                                     !.transfers = Append(st.transfers, <<vj, vi>>)],
                          vertices, i, j + 1)
            ELSE DedupPairsBreakAll(st, vertices, i, j + 1)

\* lines 57-77: the pairs (i, j), i < j, of one bucket
RECURSIVE DedupPairs(_, _, _, _)
DedupPairs(st, vertices, i, j) ==
    IF i > Len(vertices) THEN st
    ELSE IF j > Len(vertices) THEN DedupPairs(st, vertices, i + 1, i + 2)
    ELSE LET vi == vertices[i]
             vj == vertices[j]
         IN IF ArePolygonsEqual(st.rv[vi].polygon, st.rv[vj].polygon)
            THEN IF st.rv[vi].roomId > st.rv[vj].roomId
                 THEN DedupPairs(
                          [TransferPassagesResult(st, vi, vj)
                              EXCEPT !.toRemove = Append(st.toRemove, vi),
                                     !.transfers = Append(st.transfers, <<vi, vj>>)],
                          vertices, i + 1, i + 2)
                 ELSE DedupPairs(
                          [TransferPassagesResult(st, vj, vi)
                              EXCEPT !.toRemove = Append(st.toRemove, vj),
                                     !.transfers = Append(st.transfers, <<vj, vi>>)],
                          vertices, i, j + 1)
            ELSE DedupPairs(st, vertices, i, j + 1)

\* lines 48-78: every bucket (a bucket of one vertex has no pair)
RECURSIVE DedupBuckets(_, _)
DedupBuckets(st, keys) ==
    IF keys = <<>> THEN st
    ELSE DedupBuckets(DedupPairs(st, Bucket(Head(keys)), 1, 2), Tail(keys))

\* lines 81-84: erase-remove and delete, in toRemove order; del collects the
\* deleted pointers, twice is set when a pointer is deleted a second time
RECURSIVE RemoveMarked(_, _)
RemoveMarked(r, toRemove) ==
    IF toRemove = <<>> THEN r
    ELSE RemoveMarked([os    |-> Remove(r.os, Head(toRemove)),
                       del   |-> r.del \cup {Head(toRemove)},
                       twice |-> r.twice \/ Head(toRemove) \in r.del],
                      Tail(toRemove))

\* lines 81-84 applied to the outcome st of the bucket loop
EraseMarked(st) ==
    LET r == RemoveMarked([os |-> originSet, del |-> freed, twice |-> FALSE],
                          st.toRemove)
    IN [rv |-> st.rv, pe |-> st.pe, toRemove |-> st.toRemove,
        transfers |-> st.transfers,
        os |-> r.os, del |-> r.del, twice |-> r.twice]

RemoveDuplicatePolygonsResult ==
    EraseMarked(DedupBuckets([rv |-> roomVertex, pe |-> passageEdge,
                              toRemove |-> <<>>, transfers |-> <<>>],
                             HashKeys(originSet, {})))

\* RoomProcessor::removeDuplicatePolygons.  Deleting a pointer twice is
\* undefined: the run either goes on as if nothing happened or is aborted by
\* the allocator.
RemoveDuplicatePolygons ==
    /\ pc \in {"given", "deduped"}
    /\ \E r \in {RemoveDuplicatePolygonsResult} :
         /\ roomVertex' = r.rv
         /\ passageEdge' = r.pe
         /\ originSet' = r.os
         /\ freed' = r.del
         /\ \/ pc' = (IF pc = "given" THEN "deduped" ELSE "dedupedTwice")
            \/ r.twice /\ pc' = "aborted"
         /\ args' = [toRemove |-> r.toRemove, transfers |-> r.transfers]
    /\ pre' = Snapshot
    /\ UNCHANGED passageEList

Next ==
    \/ MergeAreas
    \/ MergeRoomCell
    \/ Prunning
    \/ ArrangeRoomId

Spec == Init /\ [][Next]_vars

\* ------------------------------------------- transferPassages on its own
\* The graphs handed to transferPassages: every passage lists a vertex at
\* most once and is listed by exactly the vertices it lists.  The vertices
\* are numbered in the order in which the passages mention them (any other
\* numbering is a renaming of one of these).
RECURSIVE Flatten(_)
Flatten(ca) == IF ca = <<>> THEN <<>> ELSE Head(ca) \o Flatten(Tail(ca))

FirstSeen(v, flat) ==
    IF v \in Range(flat)
    THEN CHOOSE i \in DOMAIN flat : flat[i] = v /\ \A k \in 1..(i - 1) : flat[k] # v
    ELSE Len(flat) + 1

NumberedByMention(nv, ca) ==
    \A v \in 1..(nv - 1) :
        FirstSeen(v, Flatten(ca)) <= FirstSeen(v + 1, Flatten(ca))

LinkedGraphs ==
    UNION {{[nv |-> nv, ca |-> ca] :
               ca \in {c \in [1..np -> DupFreeSeqs(1..nv, nv)] :
                          NumberedByMention(nv, c)}} :
           nv \in 2..MaxVertices, np \in 0..MaxPassages}

\* the passages vector of v; the vertex twice holds its first passage a
\* second time, as mergeAreas leaves it (roomGraph.cpp line 129)
LinkedPassages(v, ca, twice) ==
    LET ps == PassagesOf(v, ca, 1)
    IN IF v = twice /\ ps # <<>> THEN Append(ps, Head(ps)) ELSE ps

InitTransfer ==
    /\ \E g \in LinkedGraphs : \E twice \in 0..g.nv :
          /\ roomVertex = [v \in 1..g.nv |->
                [NewRoomVertex(v - 1) EXCEPT
                    !.passages = LinkedPassages(v, g.ca, twice)]]
          /\ passageEdge = [p \in 1..Len(g.ca) |-> [connectedAreas |-> g.ca[p]]]
          /\ originSet = [i \in 1..g.nv |-> i]
          /\ passageEList = [i \in 1..Len(g.ca) |-> i]
    /\ freed = {}
    /\ pc = "given"
    /\ pre = [roomVertex |-> roomVertex, passageEdge |-> passageEdge,
              originSet |-> originSet, passageEList |-> passageEList]
    /\ args = <<>>

NextTransfer == TransferPassages

SpecTransfer == InitTransfer /\ [][NextTransfer]_vars

\* --------------------------------------- removeDuplicatePolygons on its own
\* the room polygons a vertex can carry: a square ring, closed (first point
\* repeated at the end) or not, listed from (0,0) or from (2,0); or none
SquareClosed      == << <<0, 0>>, <<2, 0>>, <<2, 2>>, <<0, 2>>, <<0, 0>> >>
SquareClosedFrom2 == << <<2, 0>>, <<2, 2>>, <<0, 2>>, <<0, 0>>, <<2, 0>> >>
SquareOpen        == << <<0, 0>>, <<2, 0>>, <<2, 2>>, <<0, 2>> >>
SquareOpenFrom2   == << <<2, 0>>, <<2, 2>>, <<0, 2>>, <<0, 0>> >>

RoomPolygons ==
    {<<>>, SquareClosed, SquareClosedFrom2, SquareOpen, SquareOpenFrom2}

DistinctRoomIds(n) == {f \in [1..n -> 0..(n - 1)] : \A i, j \in 1..n : f[i] = f[j] => i = j}

\* connectedAreas as buildAreaGraph fills it: in the order of originSet
Ascending(n) ==
    {s \in DupFreeSeqs(1..n, n) : \A i \in 1..(Len(s) - 1) : s[i] < s[i + 1]}

\* a graph with polygons, pairwise different roomIds in any order, and one
\* passage
InitDedup ==
    /\ \E nv \in 1..MaxVertices :
         \E rid \in DistinctRoomIds(nv), poly \in [1..nv -> RoomPolygons],
            ca \in [1..1 -> Ascending(nv)] :
            /\ roomVertex = [v \in 1..nv |->
                  [NewRoomVertex(rid[v]) EXCEPT
                      !.passages = PassagesOf(v, ca, 1),
                      !.polygon  = poly[v]]]
            /\ passageEdge = [p \in 1..1 |-> [connectedAreas |-> ca[p]]]
            /\ originSet = [i \in 1..nv |-> i]
            /\ passageEList = <<1>>
    /\ freed = {}
    /\ pc = "given"
    /\ pre = [roomVertex |-> roomVertex, passageEdge |-> passageEdge,
              originSet |-> originSet, passageEList |-> passageEList]
    /\ args = <<>>

NextDedup == RemoveDuplicatePolygons

SpecDedup == InitDedup /\ [][NextDedup]_vars

\* ================================================================ claims
\* number of connectedAreas entries, over the passages of the passage list,
\* that point to v
RECURSIVE RefCount(_, _)
RefCount(v, pl) ==
    IF pl = <<>> THEN 0
    ELSE Count(passageEdge[Head(pl)].connectedAreas, v) + RefCount(v, Tail(pl))

\* C1: after mergeAreas, mergeRoomCell and prunning, for every vertex left in
\* originSet the number of connectedAreas entries that reference it equals
\* the size of its passages vector.
C1_MergeConservation ==
    pc = "pruned" =>
        \A v \in Range(originSet) :
            RefCount(v, passageEList) = Len(roomVertex[v].passages)

\* C2: after mergeAreas, mergeRoomCell and prunning no vertex with roomId -2
\* is left in originSet.
C2_NoTombstoneLeft ==
    pc = "pruned" =>
        \A v \in Range(originSet) : roomVertex[v].roomId # -2

\* C3: after mergeAreas, mergeRoomCell and prunning every vertex referenced
\* by the connectedAreas of a listed passage is live (roomId # -2) and is an
\* element of originSet.
C3_PassagesReferenceLiveVertices ==
    pc = "pruned" =>
        \A p \in Range(passageEList) :
            \A v \in Range(passageEdge[p].connectedAreas) :
                roomVertex[v].roomId # -2 /\ v \in Range(originSet)

\* C4: after arrangeRoomId the vertex at 0-based position i of originSet has
\* roomId i, so the ids are exactly 0..N-1 and none is repeated.
C4_IdContiguity ==
    pc = "arranged" =>
        /\ \A i \in DOMAIN originSet : roomVertex[originSet[i]].roomId = i - 1
        /\ {roomVertex[v].roomId : v \in Range(originSet)} = 0 .. (Len(originSet) - 1)
        /\ \A v, w \in Range(originSet) :
              roomVertex[v].roomId = roomVertex[w].roomId => v = w

C4_Witness ==
    /\ pc = "arranged"
    /\ Len(originSet) >= 3
    /\ \E v \in Range(originSet) : pre.roomVertex[v].roomId = -2
    /\ \E v \in Range(originSet) : pre.roomVertex[v].roomId = -1

\* C5: after mergeAreas (on a builder-produced graph) every vertex in the
\* connectedAreas of a listed passage is an element of originSet and was not
\* deleted, and every passage of a vertex of originSet is still listed.
C5_NoDanglingAfterMergeAreas ==
    pc = "areasMerged" =>
        /\ \A p \in Range(passageEList) :
              \A v \in Range(passageEdge[p].connectedAreas) :
                  v \in Range(originSet) /\ v \notin freed
        /\ \A v \in Range(originSet) :
              \A p \in Range(roomVertex[v].passages) : p \in Range(passageEList)

C5_Witness ==
    /\ pc = "areasMerged"
    /\ Cardinality(freed) >= 2
    /\ Len(passageEList) < Len(pre.passageEList)
    /\ \E p \in Range(passageEList) :
          Range(pre.passageEdge[p].connectedAreas) \cap freed # {}

\* the roomId a vertex had when mergeAreas was called
PreId(v) == pre.roomVertex[v].roomId

\* the aggregate mergeAreas created for the group g
Aggregates(g) == {a \in Range(originSet) :
                     a \notin DOMAIN pre.roomVertex /\ roomVertex[a].roomId = g}

\* C6: after mergeAreas no listed passage had all of its (non-empty)
\* connectedAreas in one roomId >= 0 group, and in every listed passage the
\* members of a group are replaced by the aggregate of the group, which
\* appears at most once.
C6_InnerRemovedOthersRedirected ==
    pc = "areasMerged" =>
        \A p \in Range(passageEList) :
            LET old == pre.passageEdge[p].connectedAreas
                now == passageEdge[p].connectedAreas
            IN /\ ~ (old # <<>> /\ \E g \in 0..MaxRoomId :
                                      \A v \in Range(old) : PreId(v) = g)
               /\ NoDup(now)
               /\ \A v \in Range(old) :
                     IF PreId(v) >= 0
                     THEN v \notin Range(now)
                          /\ \E a \in Aggregates(PreId(v)) : a \in Range(now)
                     ELSE v \in Range(now)
               /\ \A a \in Range(now) :
                     \/ a \in Range(old) /\ PreId(a) < 0
                     \/ \E v \in Range(old) :
                           PreId(v) >= 0 /\ a \in Aggregates(PreId(v))

C6_Witness ==
    /\ pc = "areasMerged"
    /\ \E p \in Range(pre.passageEList) : p \notin Range(passageEList)
    /\ \E p \in Range(passageEList) :
          /\ Len(passageEdge[p].connectedAreas) < Len(pre.passageEdge[p].connectedAreas)
          /\ Len(passageEdge[p].connectedAreas) >= 2

\* the polygon fragments of the members of group g, in originSet order
RECURSIVE GroupPolygons(_, _)
GroupPolygons(os, g) ==
    IF os = <<>> THEN <<>>
    ELSE (IF PreId(Head(os)) = g THEN pre.roomVertex[Head(os)].polygons ELSE <<>>)
             \o GroupPolygons(Tail(os), g)

C8_TransferPassagesContract ==
    pc = "transferred" =>
        LET s     == args.source
            t     == args.target
            moved == Range(pre.roomVertex[s].passages)
        IN NoDup(pre.roomVertex[t].passages) =>
              /\ s # t
              /\ roomVertex[s].passages = <<>>
              /\ \A p \in moved :
                    /\ Count(roomVertex[t].passages, p) = 1
                    /\ s \notin Range(passageEdge[p].connectedAreas)
                    /\ Count(passageEdge[p].connectedAreas, t) = 1
              /\ \A p \in (DOMAIN passageEdge) \ moved :
                    passageEdge[p] = pre.passageEdge[p]
              /\ \A v \in (DOMAIN roomVertex) \ {s, t} :
                    roomVertex[v] = pre.roomVertex[v]

\* a transfer in a graph of three vertices where one passage of source
\* listed target already (source is erased from it) and another did not
\* (source is replaced by target in it)
C8_Witness ==
    /\ pc = "transferred"
    /\ NoDup(pre.roomVertex[args.target].passages)
    /\ Cardinality(DOMAIN roomVertex) >= 3
    /\ \E p, q \in Range(pre.roomVertex[args.source].passages) :
          /\ p # q
          /\ args.target \in Range(pre.passageEdge[p].connectedAreas)
          /\ args.target \notin Range(pre.passageEdge[q].connectedAreas)

\* the two polygons list the same points, one possibly starting from another
\* point of the ring than the other
SamePointSet(poly1, poly2) ==
    /\ poly1 # <<>>
    /\ Len(poly1) = Len(poly2)
    /\ Range(poly1) = Range(poly2)

\* the vertices of the collection before the run whose polygon has the
\* points of the polygon of v
Lookalikes(v) ==
    {w \in Range(pre.originSet) :
        SamePointSet(pre.roomVertex[v].polygon, pre.roomVertex[w].polygon)}

LowestLookalike(v) ==
    CHOOSE u \in Lookalikes(v) : \A w \in Lookalikes(v) : PreId(u) <= PreId(w)

\* C9: after removeDuplicatePolygons, of the vertices whose polygons have the
\* same point set (and different roomIds) only the one with the lowest
\* roomId is left in originSet, and every passage that referenced a discarded
\* one references the survivor.
C9_LowestRoomIdSurvives ==
    pc = "deduped" =>
        \A v \in Range(pre.originSet) :
            pre.roomVertex[v].polygon # <<>> =>
                IF v = LowestLookalike(v)
                THEN v \in Range(originSet)
                ELSE /\ v \notin Range(originSet)
                     /\ \A p \in Range(passageEList) :
                           v \in Range(pre.passageEdge[p].connectedAreas) =>
                               LowestLookalike(v)
                                   \in Range(passageEdge[p].connectedAreas)

\* C10: a second run of removeDuplicatePolygons right after a first one
\* removes no vertex: originSet is as long after it as before it.
C10_SecondRunRemovesNothing ==
    pc = "dedupedTwice" => Len(originSet) = Len(pre.originSet)

\* two runs, the first of which removed a vertex
C10_Witness ==
    /\ pc = "dedupedTwice"
    /\ freed # {}
    /\ Len(originSet) < Cardinality(DOMAIN roomVertex)

\* ================================================ mergeSmallAdjacentRooms
\* RoomProcessor::calculateRoomArea, doubled
RoomArea2(room) ==
    IF room.polygon = <<>> THEN 0 ELSE CalcPolyArea2(room.polygon)

\* line 236: boost::geometry::distance of the two room centres; the centre
\* of a room (RoomProcessor::calculateRoomCenter) is the mean of the listed
\* points, or the origin for an empty polygon.  For the rooms of RoomRow the
\* distance is a whole number of pixels.
CenterDistance(a, b) ==
    LET RoomCenterSum(room) ==
            IF room.polygon = <<>> THEN <<0, 0>> ELSE CentroidSum(room.polygon)
        RoomCenterCount(room) ==
            IF room.polygon = <<>> THEN 1 ELSE Len(room.polygon)
        ca == RoomCenterSum(a)
        cb == RoomCenterSum(b)
        na == RoomCenterCount(a)
        nb == RoomCenterCount(b)
        dx == nb * ca[1] - na * cb[1]
        dy == nb * ca[2] - na * cb[2]
    IN FloorSqrt(dx * dx + dy * dy) \div (na * nb)

\* lines 236-241, multiplied by maxMergeDistPixels: 10 * distFactor, plus 5
\* for a neighbour smaller than 1.5 * minArea
Score(dist, area2, minArea, maxDist) ==
    10 * (IF maxDist - dist > 0 THEN maxDist - dist ELSE 0)
        + (IF area2 < 3 * minArea THEN 5 * maxDist ELSE 0)

\* lines 189-192: std::sort by area (an insertion sort for so few rooms)
RECURSIVE InsertByArea(_, _, _)
InsertByArea(v, s, rv) ==
    IF s = <<>> THEN <<v>>
    ELSE IF RoomArea2(rv[v]) < RoomArea2(rv[Head(s)]) THEN <<v>> \o s
         ELSE <<Head(s)>> \o InsertByArea(v, Tail(s), rv)

RECURSIVE SortByArea(_, _)
SortByArea(s, rv) ==
    IF s = <<>> THEN <<>>
    ELSE InsertByArea(s[Len(s)], SortByArea(SubSeq(s, 1, Len(s) - 1), rv), rv)

\* lines 164-172
SmallRooms(st, minArea) ==
    SortByArea(SelectSeq(st.os, LAMBDA v : RoomArea2(st.rv[v]) < 2 * minArea),
               st.rv)

\* lines 203-211: <<neighbour, passage>> for the two-area passages of the
\* list that hold smallRoom, in list order
RECURSIVE PassageNeighbours(_, _, _, _)
PassageNeighbours(st, smallRoom, mergedRooms, pl) ==
    IF pl = <<>> THEN <<>>
    ELSE LET ca == st.pe[Head(pl)].connectedAreas
             nb == IF Len(ca) # 2 THEN Null
                   ELSE IF ca[1] = smallRoom THEN ca[2]
                   ELSE IF ca[2] = smallRoom THEN ca[1]
                   ELSE Null
         IN (IF nb = Null \/ nb \in mergedRooms THEN <<>>
             ELSE << <<nb, Head(pl)>> >>)
              \o PassageNeighbours(st, smallRoom, mergedRooms, Tail(pl))

\* lines 216-223: the two polygons have a point in common
SharePoint(poly1, poly2) ==
    \E i \in DOMAIN poly1 : \E j \in DOMAIN poly2 : PointsEqual(poly1[i], poly2[j])

\* lines 213-229: the fallback when no passage gives a neighbour
PolygonNeighbours(st, smallRoom, mergedRooms) ==
    LET adj == SelectSeq(st.os, LAMBDA c :
                   /\ c # smallRoom
                   /\ c \notin mergedRooms
                   /\ SharePoint(st.rv[smallRoom].polygon, st.rv[c].polygon))
    IN [i \in DOMAIN adj |-> <<adj[i], Null>>]

Neighbours(st, smallRoom, mergedRooms) ==
    LET byPassage == PassageNeighbours(st, smallRoom, mergedRooms, st.pl)
    IN IF byPassage = <<>> THEN PolygonNeighbours(st, smallRoom, mergedRooms)
       ELSE byPassage

\* neighborMap[nb]: the last passage entered for nb
NeighborMap(nbs, nb) ==
    nbs[CHOOSE i \in DOMAIN nbs :
            nbs[i][1] = nb /\ \A k \in DOMAIN nbs : nbs[k][1] = nb => k <= i][2]

\* lines 231-247: a later neighbour wins only with a strictly higher score
RECURSIVE BestNeighbor(_, _, _, _, _, _)
BestNeighbor(st, smallRoom, nbs, i, best, params) ==
    IF i > Len(nbs) THEN best
    ELSE LET nb    == nbs[i][1]
             score == Score(CenterDistance(st.rv[smallRoom], st.rv[nb]),
                            RoomArea2(st.rv[nb]), params.minArea, params.maxDist)
         IN BestNeighbor(st, smallRoom, nbs, i + 1,
                IF score > best.score
                THEN [nb |-> nb, score |-> score, passage |-> NeighborMap(nbs, nb)]
                ELSE best,
                params)

\* lines 194-262: the merges of one pass are planned before any is done
RECURSIVE PlanMerges(_, _, _, _)
PlanMerges(st, smallRooms, plan, params) ==
    IF smallRooms = <<>> THEN plan
    ELSE LET smallRoom == Head(smallRooms)
             best == BestNeighbor(st, smallRoom,
                         Neighbours(st, smallRoom, plan.mergedRooms), 1,
                         [nb |-> Null, score |-> -params.maxDist, passage |-> Null],
                         params)
         IN PlanMerges(st, Tail(smallRooms),
                IF smallRoom \in plan.mergedRooms THEN plan
                ELSE IF best.nb # Null /\ best.score > 0
                THEN [mergedRooms |-> plan.mergedRooms \cup {smallRoom},
                      passagesToRemove |-> plan.passagesToRemove
                          \cup (IF best.passage # Null THEN {best.passage} ELSE {}),
                      mergeOperations |->
                          Append(plan.mergeOperations, <<smallRoom, best.nb>>)]
                ELSE plan,
                params)

\* ---- boost::geometry::convex_hull into a ring (clockwise, closed)
Cross(o, a, b) ==
    (a[1] - o[1]) * (b[2] - o[2]) - (a[2] - o[2]) * (b[1] - o[1])

\* graham_andrew: the points sorted by x then y; the upper chain from the
\* leftmost to the rightmost point, then the lower chain back.  A point
\* enters a chain after the points that would make the chain turn left or
\* go straight on have left it.
ConvexHull(S) ==
    LET LexLess(a, b) == a[1] < b[1] \/ (a[1] = b[1] /\ a[2] < b[2])
        RECURSIVE SortPoints(_)
        SortPoints(T) ==
            IF T = {} THEN <<>>
            ELSE LET m == CHOOSE a \in T : \A b \in T \ {a} : LexLess(a, b)
                 IN <<m>> \o SortPoints(T \ {m})
        Reverse(s) == [i \in DOMAIN s |-> s[Len(s) + 1 - i]]
        RECURSIVE PushPoint(_, _)
        PushPoint(chain, pt) ==
            IF /\ Len(chain) >= 2
               /\ Cross(chain[Len(chain) - 1], chain[Len(chain)], pt) >= 0
            THEN PushPoint(SubSeq(chain, 1, Len(chain) - 1), pt)
            ELSE Append(chain, pt)
        RECURSIVE HalfHull(_, _)
        HalfHull(chain, pts) ==
            IF pts = <<>> THEN chain
            ELSE HalfHull(PushPoint(chain, Head(pts)), Tail(pts))
        sorted == SortPoints(S)
    IN IF S = {} THEN <<>>
       ELSE HalfHull(<<>>, sorted) \o Tail(HalfHull(<<>>, Reverse(sorted)))

\* mutant of ExecuteMerge: the room that is kept takes over the roomId of
\* the room merged into it
ExecuteMergeTakeId(st, smallRoom, targetRoom) ==
    LET ring == ConvexHull(Range(st.rv[smallRoom].polygon)
                               \cup Range(st.rv[targetRoom].polygon))
        st1  == TransferPassagesResult(
                    [st EXCEPT !.rv[targetRoom].polygon = ring,
                               !.rv[targetRoom].roomId = st.rv[smallRoom].roomId],
                    smallRoom, targetRoom)
    IN [st1 EXCEPT !.os = Remove(@, smallRoom), !.del = @ \cup {smallRoom}]

\* lines 267-292: one merge operation; transferPassages reads every passage
\* of smallRoom, also one that an earlier pass has deleted (ub)
ExecuteMerge(st, smallRoom, targetRoom) ==
    LET ring == ConvexHull(Range(st.rv[smallRoom].polygon)
                               \cup Range(st.rv[targetRoom].polygon))
        st1  == TransferPassagesResult(
                    [st EXCEPT !.rv[targetRoom].polygon = ring],
                    smallRoom, targetRoom)
    IN [st1 EXCEPT
          !.os  = Remove(@, smallRoom),
          !.del = @ \cup {smallRoom},
          !.ub  = @ \/ \E p \in Range(st.rv[smallRoom].passages) :
                           p \notin Range(st.pl)]

RECURSIVE ExecuteMerges(_, _)
ExecuteMerges(st, ops) ==
    IF ops = <<>> THEN st
    ELSE ExecuteMerges(ExecuteMerge(st, Head(ops)[1], Head(ops)[2]), Tail(ops))

\* mutant of RemovePassages: nothing leaves the passage list
RemovePassagesNone(st, passagesToRemove) == st

\* lines 295-298
RemovePassages(st, passagesToRemove) ==
    [st EXCEPT !.pl = SelectSeq(@, LAMBDA p : p \notin passagesToRemove)]

\* RoomProcessor::mergeSmallAdjacentRooms with its recursion (line 305);
\* passes counts the calls
RECURSIVE MergeSmallPasses(_, _)
MergeSmallPasses(st, params) ==
    LET plan == PlanMerges(st, SmallRooms(st, params.minArea),
                    [mergedRooms |-> {}, passagesToRemove |-> {},
                     mergeOperations |-> <<>>],
                    params)
        ops  == plan.mergeOperations
        \* the centres are those computed at the start of the pass (line 164)
        done == [i \in DOMAIN ops |->
                    [smallRoom |-> ops[i][1], targetRoom |-> ops[i][2],
                     dist |-> CenterDistance(st.rv[ops[i][1]], st.rv[ops[i][2]]),
                     pass |-> st.passes + 1]]
    IN IF ops = <<>> THEN [st EXCEPT !.passes = @ + 1]
       ELSE MergeSmallPasses(
                RemovePassages(
                    ExecuteMerges([st EXCEPT !.passes = @ + 1,
                                             !.merges = @ \o done],
                                  ops),
                    plan.passagesToRemove),
                params)

\* the thresholds in pixel units: minArea / resolution^2 and
\* maxMergeDistance / resolution
MinAreaPixels == {30, 60}
MaxMergeDistPixels == {6, 12}

\* Reading a deleted passageEdge is undefined: the run goes on with what the
\* object held when it was deleted, or is aborted.
MergeSmallAdjacentRooms ==
    /\ pc = "given"
    /\ \E minArea \in MinAreaPixels, maxDist \in MaxMergeDistPixels :
        /\ \E r \in {MergeSmallPasses(
                        [rv |-> roomVertex, pe |-> passageEdge, os |-> originSet,
                         pl |-> passageEList, del |-> freed, ub |-> FALSE,
                         passes |-> 0, merges |-> <<>>],
                        [minArea |-> minArea, maxDist |-> maxDist])} :
              /\ args' = [minArea |-> minArea, maxDist |-> maxDist,
                          passes |-> r.passes, merges |-> r.merges]
              /\ roomVertex' = r.rv
              /\ passageEdge' = r.pe
              /\ originSet' = r.os
              /\ passageEList' = r.pl
              /\ freed' = r.del
              /\ \/ pc' = "merged"
                 \/ r.ub /\ pc' = "aborted"
    /\ pre' = Snapshot

\* ---- the graphs handed to mergeSmallAdjacentRooms: rooms side by side on
\* a row, each a closed rectangle one or three units wide
RoomUnit == 5
RoomWidths == {1, 3}

Rect(x0, x1) ==
    << <<x0, 0>>, <<x0, RoomUnit>>, <<x1, RoomUnit>>, <<x1, 0>>, <<x0, 0>> >>

RECURSIVE RoomRow(_, _)
RoomRow(widths, x0) ==
    IF widths = <<>> THEN <<>>
    ELSE <<Rect(x0, x0 + RoomUnit * Head(widths))>>
             \o RoomRow(Tail(widths), x0 + RoomUnit * Head(widths))

\* every passage connects two or more rooms, listed in the order of
\* originSet
InitMerge ==
    /\ \E nv \in 2..MaxVertices, np \in 0..MaxPassages :
         \E widths \in [1..nv -> RoomWidths], ca \in [1..np -> {c \in Ascending(nv) : Len(c) >= 2}] :
            /\ roomVertex = [v \in 1..nv |->
                  [NewRoomVertex(v - 1) EXCEPT
                      !.passages = PassagesOf(v, ca, 1),
                      !.polygon  = RoomRow(widths, 0)[v]]]
            /\ passageEdge = [p \in 1..np |-> [connectedAreas |-> ca[p]]]
            /\ originSet = [i \in 1..nv |-> i]
            /\ passageEList = [i \in 1..np |-> i]
    /\ freed = {}
    /\ pc = "given"
    /\ pre = [roomVertex |-> roomVertex, passageEdge |-> passageEdge,
              originSet |-> originSet, passageEList |-> passageEList]
    /\ args = <<>>

SpecMerge == InitMerge /\ [][MergeSmallAdjacentRooms]_vars

\* ------------------------------------------------------------ claims
\* C11: after mergeSmallAdjacentRooms has returned, the links are symmetric
\* and none dangles: every passage held by a vertex of originSet is in
\* passageEList and lists that vertex, and every vertex listed by a passage
\* of passageEList is in originSet and holds that passage.
C11_LinksAfterSmallRoomMerge ==
    pc = "merged" =>
        /\ \A v \in Range(originSet) :
              \A p \in Range(roomVertex[v].passages) :
                  /\ p \in Range(passageEList)
                  /\ v \in Range(passageEdge[p].connectedAreas)
        /\ \A p \in Range(passageEList) :
              \A w \in Range(passageEdge[p].connectedAreas) :
                  /\ w \in Range(originSet)
                  /\ p \in Range(roomVertex[w].passages)

\* C12: after mergeSmallAdjacentRooms has returned, no passage of
\* passageEList has been made interior by a merge: a passage that connected
\* an absorbed room with the room that absorbed it is out of the list, so
\* none is left with one room as its only connected area.
C12_NoInteriorPassageLeft ==
    pc = "merged" =>
        \A p \in Range(passageEList) :
            Cardinality(Range(passageEdge[p].connectedAreas)) >= 2

\* ring is closed, its points are points of S, and no point of S is on the
\* left of one of its edges: the clockwise convex hull of S
IsHullOf(ring, S) ==
    /\ Len(ring) >= 4
    /\ ring[1] = ring[Len(ring)]
    /\ Range(ring) \subseteq S
    /\ \A i \in 1..(Len(ring) - 1) :
          \A pt \in S : Cross(ring[i], ring[i + 1], pt) <= 0

\* the case of C13 in the graph before the call: two rooms, one passage
\* that lists both, small below minArea, large at least 1.5 * minArea, the
\* centres closer than maxMergeDistance
SmallBesideLarge(small, large) ==
    /\ pre.originSet \in {<<small, large>>, <<large, small>>}
    /\ small # large
    /\ Len(pre.passageEList) = 1
    /\ Range(pre.passageEdge[pre.passageEList[1]].connectedAreas) = {small, large}
    /\ Len(pre.passageEdge[pre.passageEList[1]].connectedAreas) = 2
    /\ RoomArea2(pre.roomVertex[small]) < 2 * args.minArea
    /\ RoomArea2(pre.roomVertex[large]) >= 3 * args.minArea
    /\ CenterDistance(pre.roomVertex[small], pre.roomVertex[large]) < args.maxDist

\* C13: two rooms sharing one two-area passage, one below minArea, the other
\* at least 1.5 * minArea, centres closer than maxMergeDistance: after
\* mergeSmallAdjacentRooms only the larger room is left, its polygon is the
\* convex hull of the points of both polygons, and the passage is out of
\* the passage list.
C13_SmallRoomAbsorbed ==
    pc = "merged" =>
        \A small, large \in Range(pre.originSet) :
            SmallBesideLarge(small, large) =>
                /\ originSet = <<large>>
                /\ IsHullOf(roomVertex[large].polygon,
                            Range(pre.roomVertex[small].polygon)
                                \cup Range(pre.roomVertex[large].polygon))
                /\ passageEList = <<>>

C13_Witness ==
    /\ pc = "merged"
    /\ \E small, large \in Range(pre.originSet) :
          /\ SmallBesideLarge(small, large)
          /\ small \in freed
          /\ Len(roomVertex[large].polygon) = 5

\* ======================================================== exportToOsmAG
\* OsmAGExporter::exportToOsmAG as the sequence of its stages.  In this
\* specification pre is the list of the stages already run and args holds
\* the parameters and the small_room_merge node of params.yaml:
\*   "absent"    the node is missing (line 91 is false)
\*   "disabled"  enabled: false
\*   "enabled"   enabled: true with min_area and max_merge_distance
\*   "noMinArea" enabled: true, reading min_area throws (line 94)
\*   "noEnabled" reading enabled throws (line 92)
MergeConfigs == {"absent", "disabled", "enabled", "noMinArea", "noEnabled"}

\* mutant of StageOrder: the small-room merge comes after the spike removal
StageOrderMergeLate ==
    <<"removeDuplicatePolygons", "rootNode",
      "collectPassagePoints", "optimizeRoomPolygonsForPassages",
      "simplifyPolygons", "removeSpikesFromPolygons",
      "mergeSmallAdjacentRooms", "nodesAndWays">>

\* the stages in the order of the statements of exportToOsmAG (lines 79,
\* 97/103, 175, 203, 206, 221, 231, 238-527)
StageOrder ==
    <<"removeDuplicatePolygons", "mergeSmallAdjacentRooms", "rootNode",
      "collectPassagePoints", "optimizeRoomPolygonsForPassages",
      "simplifyPolygons", "removeSpikesFromPolygons", "nodesAndWays">>

\* lines 84-105, 219, 229: the conditions under which a stage is run; a
\* throw in the try block is caught at line 100 with mergeEnabled still true
StageRuns(stage, a) ==
    CASE stage = "mergeSmallAdjacentRooms" ->
             a.small_room_merge \in {"enabled", "noMinArea", "noEnabled"}
      [] stage = "simplifyPolygons" -> a.simplify_enabled
      [] stage = "removeSpikesFromPolygons" -> a.spike_removal_enabled
      [] OTHER -> TRUE

\* the stage run after the stages of done, or "return"
NextStage(done, a) ==
    LET after == {i \in DOMAIN StageOrder :
                     /\ StageRuns(StageOrder[i], a)
                     /\ \A k \in i..Len(StageOrder) : StageOrder[k] \notin Range(done)}
    IN IF after = {} THEN "return"
       ELSE StageOrder[CHOOSE i \in after : \A k \in after : i <= k]

ExportStage ==
    /\ pc = "exporting"
    /\ pre' = Append(pre, NextStage(pre, args))
    /\ pc' = IF NextStage(pre', args) = "return" THEN "exported" ELSE "exporting"
    /\ UNCHANGED <<roomVertex, passageEdge, originSet, passageEList, freed, args>>

InitExport ==
    /\ roomVertex = <<>>
    /\ passageEdge = <<>>
    /\ originSet = <<>>
    /\ passageEList = <<>>
    /\ freed = {}
    /\ pc = "exporting"
    /\ pre = <<>>
    /\ args \in [simplify_enabled : BOOLEAN, spike_removal_enabled : BOOLEAN,
                 small_room_merge : MergeConfigs]

SpecExport == InitExport /\ [][ExportStage]_vars

\* stage a has been run, and stage b had not been run before it
RunBefore(a, b) ==
    \E i \in DOMAIN pre : pre[i] = a /\ \A k \in 1..i : pre[k] # b

InsertPassagePoint(tempPolygon, passagePoint) ==
    LET n == Len(tempPolygon)
        \* sqrt(a) + sqrt(b) < sqrt(c) + sqrt(d)
        SumLess(a, b, c, d) ==
            LET k == (c + d) - (a + b)
                m == 4 * a * b - 4 * c * d - k * k
            IN IF k >= 0
               THEN m < 0 \/ (k > 0 /\ m * m < 16 * k * k * c * d)
               ELSE m < 0 /\ 16 * k * k * a * b < m * m
        Dist(i) == <<Dist2(tempPolygon[i], passagePoint),
                     Dist2(tempPolygon[i + 1], passagePoint)>>
        RECURSIVE Best(_, _)
        \* bestPos after the pairs i..n-1, best being the pair found so far
        \* (0: none, minDist is the largest double)
        Best(i, best) ==
            IF i >= n THEN best
            ELSE Best(i + 1,
                      IF best = 0 \/ SumLess(Dist(i)[1], Dist(i)[2],
                                             Dist(best)[1], Dist(best)[2])
                      THEN i ELSE best)
        best == Best(1, 0)
        last == <<Dist2(tempPolygon[n], passagePoint),
                  Dist2(tempPolygon[1], passagePoint)>>
    IN IF \E i \in 1..n : PointsEqual(passagePoint, tempPolygon[i])
       THEN tempPolygon
       ELSE IF best = 0 \/ SumLess(last[1], last[2], Dist(best)[1], Dist(best)[2])
            THEN <<passagePoint>> \o tempPolygon
            ELSE SubSeq(tempPolygon, 1, best) \o <<passagePoint>>
                   \o SubSeq(tempPolygon, best + 1, n)

\* lines 265-302: the set of the (1-based) positions of polygonPoints whose
\* keepPoint is cleared for the endpoint pairs i..Len(pairs).  idx1 and idx2
\* are the last positions equal to the two endpoints; the arc strictly
\* between them with fewer points is dropped, the wrapping one on a tie.
RECURSIVE DroppedPoints(_, _, _)
DroppedPoints(polygonPoints, pairs, i) ==
    IF i > Len(pairs) THEN {}
    ELSE LET n == Len(polygonPoints)
             At(pt) == {k \in 1..n : PointsEqual(polygonPoints[k], pt)}
             f1 == At(pairs[i][1])
             f2 == At(pairs[i][2])
             i1 == MaxOf(f1)
             i2 == MaxOf(f2)
             idx1 == IF i1 > i2 THEN i2 ELSE i1
             idx2 == IF i1 > i2 THEN i1 ELSE i2
             path1Length == idx2 - idx1 - 1
             path2Length == (idx1 + n) - idx2 - 1
         IN (IF f1 = {} \/ f2 = {} THEN {}
             ELSE IF path1Length < path2Length
                  THEN (idx1 + 1) .. (idx2 - 1)
                  ELSE ((idx2 + 1) .. n) \cup (1 .. (idx1 - 1)))
            \cup DroppedPoints(polygonPoints, pairs, i + 1)

\* lines 169-321 for one room: pairs are the endpoint pairs of the passages
\* of allPassages that name the room, in the order of allPassages
OptimizeRoom(polygon, pairs) ==
    LET RECURSIVE InsertAll(_, _)
        InsertAll(tempPolygon, i) ==
            IF i > Len(pairs) THEN tempPolygon
            ELSE InsertAll(InsertPassagePoint(
                               InsertPassagePoint(tempPolygon, pairs[i][1]),
                               pairs[i][2]), i + 1)
        polygonPoints == InsertAll(polygon, 1)
        dropped == DroppedPoints(polygonPoints, pairs, 1)
        RECURSIVE Kept(_)
        Kept(i) == IF i > Len(polygonPoints) THEN <<>>
                   ELSE (IF i \in dropped THEN <<>> ELSE <<polygonPoints[i]>>)
                          \o Kept(i + 1)
        optimizedPolygon == Kept(1)
    IN IF pairs = <<>> THEN polygon
       ELSE IF optimizedPolygon # <<>>
               /\ ~ PointsEqual(optimizedPolygon[1],
                                optimizedPolygon[Len(optimizedPolygon)])
            THEN Append(optimizedPolygon, optimizedPolygon[1])
            ELSE optimizedPolygon

\* the endpoint pairs that name room v, in the order of allPassages
RECURSIVE PairsOf(_, _)
PairsOf(v, allPassages) ==
    IF allPassages = <<>> THEN <<>>
    ELSE (IF v \in {Head(allPassages).roomA, Head(allPassages).roomB}
          THEN << <<Head(allPassages).pointA, Head(allPassages).pointB>> >>
          ELSE <<>>) \o PairsOf(v, Tail(allPassages))

\* rooms of a row: room i is the rectangle [2(i-1), 2i] x [0, 3], listed
\* clockwise from its lower left corner; wall[i] in 0..2 is the number of
\* further points that the two rooms at x = 2i list on their common wall
DoorWall(x, k) == [j \in 1..k |-> <<x, j>>]

DoorRoom(i, wall) ==
    LET left  == IF i - 1 \in DOMAIN wall THEN DoorWall(2 * (i - 1), wall[i - 1]) ELSE <<>>
        right == IF i \in DOMAIN wall THEN DoorWall(2 * i, wall[i]) ELSE <<>>
    IN << <<2 * (i - 1), 0>> >> \o left \o << <<2 * (i - 1), 3>>, <<2 * i, 3>> >>
         \o [j \in 1..Len(right) |-> right[Len(right) + 1 - j]]
         \o << <<2 * i, 0>>, <<2 * (i - 1), 0>> >>

\* endpoint pairs handed in for a passage of the rooms a < b: the two ends
\* of the common wall in either order, or one end and the point two above
\* it (rooms side by side); the near upper corners (rooms apart)
Endpoints(a, b) ==
    IF b = a + 1
    THEN { << <<2 * a, 0>>, <<2 * a, 3>> >>, << <<2 * a, 3>>, <<2 * a, 0>> >>,
           << <<2 * a, 0>>, <<2 * a, 2>> >> }
    ELSE { << <<2 * a, 3>>, <<2 * (b - 1), 3>> >> }

\* the lists precomputedPassagePoints can be: one entry for every passage
\* of passageEList with two connected areas
PrecomputedPassagePoints ==
    LET two == SelectSeq(passageEList,
                         LAMBDA p : Len(passageEdge[p].connectedAreas) = 2)
        all == UNION {Endpoints(a, b) : a \in 1..MaxVertices, b \in 2..(MaxVertices + 1)}
    IN {[i \in DOMAIN two |->
            [pointA |-> f[i][1], pointB |-> f[i][2],
             roomA |-> passageEdge[two[i]].connectedAreas[1],
             roomB |-> passageEdge[two[i]].connectedAreas[2]]] :
        f \in {g \in [DOMAIN two -> all] :
                  \A i \in DOMAIN two :
                      g[i] \in Endpoints(passageEdge[two[i]].connectedAreas[1],
                                         passageEdge[two[i]].connectedAreas[2])}}

OptimizeRoomPolygonsForPassages ==
    /\ pc = "given"
    /\ \E allPassages \in PrecomputedPassagePoints :
         /\ roomVertex' = [v \in DOMAIN roomVertex |->
               IF v \in Range(originSet)
               THEN [roomVertex[v] EXCEPT
                        !.polygon = OptimizeRoom(@, PairsOf(v, allPassages))]
               ELSE roomVertex[v]]
         /\ args' = allPassages
    /\ pre' = Snapshot
    /\ pc' = "optimized"
    /\ UNCHANGED <<passageEdge, originSet, passageEList, freed>>

InitOptimize ==
    /\ \E nv \in 2..MaxVertices, np \in 0..MaxPassages :
         \E wall \in [1..(nv - 1) -> 0..2],
            ca \in [1..np -> {c \in Ascending(nv) : Len(c) >= 2}] :
            /\ roomVertex = [v \in 1..nv |->
                  [NewRoomVertex(v - 1) EXCEPT
                      !.passages = PassagesOf(v, ca, 1),
                      !.polygon  = DoorRoom(v, wall)]]
            /\ passageEdge = [p \in 1..np |-> [connectedAreas |-> ca[p]]]
            /\ originSet = [i \in 1..nv |-> i]
            /\ passageEList = [i \in 1..np |-> i]
    /\ freed = {}
    /\ pc = "given"
    /\ pre = [roomVertex |-> roomVertex, passageEdge |-> passageEdge,
              originSet |-> originSet, passageEList |-> passageEList]
    /\ args = <<>>

SpecOptimize == InitOptimize /\ [][OptimizeRoomPolygonsForPassages]_vars

\* C15: after optimizeRoomPolygonsForPassages, both endpoints of every
\* passage with two connected areas are points of the polygons of both of
\* its rooms, a room with several passages included.
C15_EndpointsOnPolygon ==
    pc = "optimized" =>
        \A i \in DOMAIN args : \A v \in {args[i].roomA, args[i].roomB} :
            \A pt \in {args[i].pointA, args[i].pointB} :
                \E k \in DOMAIN roomVertex[v].polygon :
                    PointsEqual(roomVertex[v].polygon[k], pt)

\* ============================ simplifyPolygon, removeSpikesFromPolygon
\* Distances are kept as squares, and as fractions <<numerator,
\* denominator>> where the code divides: the comparisons of the code are
\* made exactly.
RatLess(q1, q2) == q1[1] * q2[2] < q2[1] * q1[2]

\* GeometryUtils::pointToLineDistance, squared
PointToLineDistance2(p, lineStart, lineEnd) ==
    LET lineLength2 == Dist2(lineStart, lineEnd)
        dot   == (p[1] - lineStart[1]) * (lineEnd[1] - lineStart[1])
                 + (p[2] - lineStart[2]) * (lineEnd[2] - lineStart[2])
        cross == (p[1] - lineStart[1]) * (lineEnd[2] - lineStart[2])
                 - (p[2] - lineStart[2]) * (lineEnd[1] - lineStart[1])
    IN IF PointsEqual(lineStart, lineEnd) THEN <<Dist2(p, lineStart), 1>>
       ELSE IF dot < 0 THEN <<Dist2(p, lineStart), 1>>
       ELSE IF dot > lineLength2 THEN <<Dist2(p, lineEnd), 1>>
       ELSE <<cross * cross, lineLength2>>

\* GeometryUtils::isApproximatelyCircular: with q[i] = n * points[i] - sum
\* of the points, the radii are sqrt(q[i] . q[i]) / n and the relative
\* variance is n * sum(q.q) / (sum of sqrt(q.q))^2 - 1.  The square roots
\* are rounded down to a tenth.
IsApproximatelyCircular(points) ==
    LET n  == Len(points)
        sx == SumSeq([i \in 1..n |-> points[i][1]])
        sy == SumSeq([i \in 1..n |-> points[i][2]])
        q2 == [i \in 1..n |-> (n * points[i][1] - sx) * (n * points[i][1] - sx)
                              + (n * points[i][2] - sy) * (n * points[i][2] - sy)]
        sumR == SumSeq([i \in 1..n |-> FloorSqrt(100 * q2[i])])
    IN IF n < 8 THEN FALSE
       ELSE 20 * n * 100 * SumSeq(q2) < 21 * sumR * sumR

\* douglasPeuckerRecursive on the positions start..end (1-based); keepPoint
\* is the set of the positions marked, epsilon2 the square of epsilon
RECURSIVE DouglasPeuckerRecursive(_, _, _, _, _)
DouglasPeuckerRecursive(points, start, end, epsilon2, keepPoint) ==
    LET D(i) == PointToLineDistance2(points[i], points[start], points[end])
        RECURSIVE Furthest(_, _)
        \* furthestIndex after the positions i..end-1
        Furthest(i, best) ==
            IF i >= end THEN best
            ELSE Furthest(i + 1,
                    IF RatLess(IF best = start THEN <<0, 1>> ELSE D(best), D(i))
                    THEN i ELSE best)
        furthestIndex == Furthest(start + 1, start)
    IN IF end - start <= 1 THEN keepPoint
       ELSE IF furthestIndex # start /\ RatLess(epsilon2, D(furthestIndex))
            THEN DouglasPeuckerRecursive(points, furthestIndex, end, epsilon2,
                    DouglasPeuckerRecursive(points, start, furthestIndex, epsilon2,
                                            keepPoint \cup {furthestIndex}))
            ELSE keepPoint

\* mutant of PreserveIndices: no position is preserved
PreserveIndicesNone(points, preservePoints) == {}

\* lines 63-75 and 121-133: the positions of the points that equal a
\* preserve point
PreserveIndices(points, preservePoints) ==
    {i \in DOMAIN points :
        \E k \in DOMAIN preservePoints : PointsEqual(points[i], preservePoints[k])}

\* the points of the positions of keepPoint, in order
KeptPoints(points, keepPoint) ==
    LET RECURSIVE Kept(_)
        Kept(i) == IF i > Len(points) THEN <<>>
                   ELSE (IF i \in keepPoint THEN <<points[i]>> ELSE <<>>) \o Kept(i + 1)
    IN Kept(1)

\* mutant of EnsureClosed: the ring is left as it is
EnsureClosedNot(polygon) == polygon

\* mutant of EnsureClosed: the first point is appended in any case
EnsureClosedAlways(polygon) ==
    IF polygon # <<>> THEN Append(polygon, polygon[1]) ELSE polygon

\* lines 88-91 and 237-240
EnsureClosed(polygon) ==
    IF polygon # <<>> /\ ~ PointsEqual(polygon[1], polygon[Len(polygon)])
    THEN Append(polygon, polygon[1])
    ELSE polygon

\* PolygonProcessor::simplifyPolygon; epsilon is a whole number of pixels
SimplifyPolygon(polygon, epsilon, preservePoints) ==
    LET n == Len(polygon)
        effectiveEpsilon2 == IF IsApproximatelyCircular(polygon)
                             THEN <<epsilon * epsilon, 4>>
                             ELSE <<9 * epsilon * epsilon, 4>>
        keepPoint == DouglasPeuckerRecursive(polygon, 1, n, effectiveEpsilon2,
                        {1, n} \cup PreserveIndices(polygon, preservePoints))
    IN IF n <= 3 THEN polygon
       ELSE EnsureClosed(KeptPoints(polygon, keepPoint))

\* lines 152-222: the position curr is judged a spike.  With a and b the
\* squares of lenA and lenB and dot the product of the vectors before they
\* are normalised, cos(angle) = dot / sqrt(a * b); the thresholds in degrees
\* are 15, 30 or 60.
IsSpike(points, curr, isCircular, angleThreshold, distanceThreshold, isCurve) ==
    LET n    == Len(points)
        prev == IF curr = 1 THEN n ELSE curr - 1
        next == IF curr = n THEN 1 ELSE curr + 1
        a    == Dist2(points[prev], points[curr])
        b    == Dist2(points[next], points[curr])
        dot  == (points[prev][1] - points[curr][1]) * (points[next][1] - points[curr][1])
                + (points[prev][2] - points[curr][2]) * (points[next][2] - points[curr][2])
        u    == 4 * dot * dot - 2 * a * b
        \* | angle - 90 | > t
        OffRight(t) == CASE t = 60 -> 4 * dot * dot > 3 * a * b
                         [] t = 30 -> 4 * dot * dot > a * b
                         [] t = 15 -> u >= 0 \/ u * u < 3 * a * a * b * b
        distance2 == PointToLineDistance2(points[curr], points[prev], points[next])
        minLen2   == IF a < b THEN a ELSE b
        effectiveAngleThreshold == IF isCircular THEN angleThreshold \div 2 ELSE angleThreshold
        effectiveDistanceThreshold == IF isCircular THEN 2 * distanceThreshold ELSE distanceThreshold
    IN /\ a >= 1 /\ b >= 1
       /\ ~ (isCurve /\ isCircular)
       /\ \/ /\ OffRight(effectiveAngleThreshold)
             /\ RatLess(distance2, <<effectiveDistanceThreshold * effectiveDistanceThreshold, 1>>)
          \/ IF isCircular THEN u > 0 /\ u * u > 3 * a * a * b * b
                           ELSE 4 * dot * dot > 3 * a * b
          \/ RatLess(<<distance2[1] * (IF isCircular THEN 400 ELSE 100), distance2[2]>>,
                     <<minLen2, 1>>)

\* PolygonProcessor::removeSpikesFromPolygon; smooth is the set of the
\* positions for which isPartOfSmoothCurve answers true
RemoveSpikesFromPolygon(polygon, angleThreshold, distanceThreshold, preservePoints, smooth) ==
    LET n == Len(polygon)
        isCircular == IsApproximatelyCircular(polygon)
        preserveIndices == PreserveIndices(polygon, preservePoints)
        keepPoint == {i \in 1..n :
                        \/ i \in preserveIndices
                        \/ ~ IsSpike(polygon, i, isCircular, angleThreshold,
                                     distanceThreshold, i \in smooth)}
    IN IF n <= 3 THEN polygon
       ELSE EnsureClosed(KeptPoints(polygon, keepPoint))

\* the polygons of the model: every list of up to MaxPoints points of a
\* 3 x 2 grid that starts at (0,0), closed or not, and a closed octagon
MaxPoints == 5
Grid == (0..2) \X (0..1)
Octagon == << <<1, 0>>, <<0, 1>>, <<0, 2>>, <<1, 3>>, <<2, 3>>, <<3, 2>>,
              <<3, 1>>, <<2, 0>>, <<1, 0>> >>

GridPolygons ==
    {<<>>, Octagon} \cup
    UNION {{<< <<0, 0>> >> \o t : t \in [1..n -> Grid]} : n \in 0..(MaxPoints - 1)}

\* --- the two functions applied to every room of the graph
Epsilons == {0, 1}
AngleThresholds == {30, 60}
DistanceThresholds == {1}
PreserveSets == {<<>>, << <<1, 0>> >>, << <<1, 1>>, <<2, 0>> >>}

\* OsmAGExporter.cpp, simplifyPolygons
SimplifyPolygons ==
    /\ pc = "given"
    /\ \E epsilon \in Epsilons, preservePoints \in PreserveSets :
         /\ roomVertex' = [v \in DOMAIN roomVertex |->
               IF v \in Range(originSet)
               THEN [roomVertex[v] EXCEPT
                        !.polygon = SimplifyPolygon(@, epsilon, preservePoints)]
               ELSE roomVertex[v]]
         /\ args' = [epsilon |-> epsilon, preservePoints |-> preservePoints]
    /\ pre' = Snapshot
    /\ pc' = "simplified"
    /\ UNCHANGED <<passageEdge, originSet, passageEList, freed>>

\* OsmAGExporter.cpp, removeSpikesFromPolygons.  isPartOfSmoothCurve adds up
\* arc cosines and is only asked about a circular polygon: its answers are
\* an input of the step.
RemoveSpikesFromPolygons ==
    /\ pc = "given"
    /\ \E angleThreshold \in AngleThresholds, distanceThreshold \in DistanceThresholds,
          preservePoints \in PreserveSets,
          smooth \in SUBSET {vi \in Range(originSet) \X DOMAIN Octagon :
                                /\ IsApproximatelyCircular(roomVertex[vi[1]].polygon)
                                /\ vi[2] \in DOMAIN roomVertex[vi[1]].polygon} :
         /\ roomVertex' = [v \in DOMAIN roomVertex |->
               IF v \in Range(originSet)
               THEN [roomVertex[v] EXCEPT
                        !.polygon = RemoveSpikesFromPolygon(@, angleThreshold,
                                        distanceThreshold, preservePoints,
                                        {i \in DOMAIN Octagon : <<v, i>> \in smooth})]
               ELSE roomVertex[v]]
         /\ args' = [angleThreshold |-> angleThreshold,
                     distanceThreshold |-> distanceThreshold,
                     preservePoints |-> preservePoints]
    /\ pre' = Snapshot
    /\ pc' = "despiked"
    /\ UNCHANGED <<passageEdge, originSet, passageEList, freed>>

InitSimplify ==
    /\ \E polygon \in GridPolygons :
          roomVertex = <<[NewRoomVertex(0) EXCEPT !.polygon = polygon]>>
    /\ passageEdge = <<>>
    /\ originSet = <<1>>
    /\ passageEList = <<>>
    /\ freed = {}
    /\ pc = "given"
    /\ pre = [roomVertex |-> roomVertex, passageEdge |-> passageEdge,
              originSet |-> originSet, passageEList |-> passageEList]
    /\ args = <<>>

SpecSimplify == InitSimplify /\ [][SimplifyPolygons \/ RemoveSpikesFromPolygons]_vars

\* the polygon handed in and the polygon returned (there is one room)
PolygonIn == pre.roomVertex[1].polygon
PolygonOut == roomVertex[1].polygon
IsClosed(polygon) == polygon # <<>> /\ PointsEqual(polygon[1], polygon[Len(polygon)])
HasPoint(polygon, pt) == \E i \in DOMAIN polygon : PointsEqual(polygon[i], pt)

\* C16 as stated: a non-empty result of simplifyPolygon and of
\* removeSpikesFromPolygon is closed, whatever the number of points of the
\* input.
C16_ResultClosed ==
    pc \in {"simplified", "despiked"} => PolygonOut = <<>> \/ IsClosed(PolygonOut)

\* C16 amended: for an input of more than 3 points, closed or not, a
\* non-empty result of simplifyPolygon and of removeSpikesFromPolygon is
\* closed; an input of 3 points or fewer is returned as it is.
C16_ResultClosedAboveThreePoints ==
    pc \in {"simplified", "despiked"} =>
        IF Len(PolygonIn) <= 3 THEN PolygonOut = PolygonIn
        ELSE PolygonOut = <<>> \/ IsClosed(PolygonOut)

C16_Witness ==
    /\ pc = "despiked"
    /\ Len(PolygonIn) > 3
    /\ ~ IsClosed(PolygonIn)
    /\ Len(PolygonOut) < Len(PolygonIn)
    /\ IsClosed(PolygonOut)

\* C18 as stated: the result of simplifyPolygon has at most as many points
\* as its input.
C18_NeverAddsPoints ==
    pc = "simplified" => Len(PolygonOut) <= Len(PolygonIn)

\* C18 amended: the result of simplifyPolygon has at most one point more
\* than its input, the closing point, and at most as many points as its
\* input when the input is closed or has 3 points or fewer; every point of
\* the result is a point of the input.
C18_AddsClosingPointOnly ==
    pc = "simplified" =>
        /\ Len(PolygonOut) <= Len(PolygonIn) + 1
        /\ IsClosed(PolygonIn) \/ Len(PolygonIn) <= 3 =>
              Len(PolygonOut) <= Len(PolygonIn)
        /\ \A i \in DOMAIN PolygonOut : HasPoint(PolygonIn, PolygonOut[i])

C18_Witness ==
    /\ pc = "simplified"
    /\ IsClosed(PolygonIn)
    /\ Len(PolygonIn) > 3
    /\ Len(PolygonOut) < Len(PolygonIn)
    /\ Len(PolygonOut) > 2

\* C19 as stated: the result of simplifyPolygon has a point at every
\* preserve point, whatever the preserve points.
C19_PreservePointsInResult ==
    pc = "simplified" =>
        \A k \in DOMAIN args.preservePoints :
            HasPoint(PolygonOut, args.preservePoints[k])

\* C19 amended: the result of simplifyPolygon has a point at every preserve
\* point that is a point of the input ring.
C19_PreservePointsOfRingInResult ==
    pc = "simplified" =>
        \A k \in DOMAIN args.preservePoints :
            HasPoint(PolygonIn, args.preservePoints[k]) =>
                HasPoint(PolygonOut, args.preservePoints[k])

\* a preserve point that the reduction alone drops is in the result
C19_Witness ==
    /\ pc = "simplified"
    /\ \E k \in DOMAIN args.preservePoints :
          /\ HasPoint(PolygonIn, args.preservePoints[k])
          /\ ~ HasPoint(SimplifyPolygon(PolygonIn, args.epsilon, <<>>),
                        args.preservePoints[k])
          /\ HasPoint(PolygonOut, args.preservePoints[k])

\* ====================================================== mergeRoomPolygons
\* In this specification roomVertex::polygons holds the polygonpoints of the
\* fragments of the vertex.

\* roomGraph.cpp, static equalLineVertex: the coordinates are the same and
\* a is not the origin
EqualLineVertex(a, b) == a = b /\ ~ (a[1] = 0 /\ a[2] = 0)

\* roomGraph.cpp, static calc_poly_area, doubled: the terms are
\* x_j * x_i * (y_j - y_i), j being the point before i (the last point
\* for the first)
calc_poly_area2(polygon) ==
    LET n == Len(polygon)
        j(i) == IF i = 1 THEN n ELSE i - 1
    IN Abs(SumSeq([i \in 1..n |->
              polygon[j(i)][1] * polygon[i][1] * (polygon[j(i)][2] - polygon[i][2])]))

\* check_redun_pair: the first edge with the end points of new_pair, in
\* either direction, is erased; without one new_pair is added unless its
\* two points are equal
check_redun_pair(edges, new_pair) ==
    LET same == {k \in DOMAIN edges :
                    \/ /\ EqualLineVertex(edges[k][1], new_pair[1])
                       /\ EqualLineVertex(edges[k][2], new_pair[2])
                    \/ /\ EqualLineVertex(edges[k][1], new_pair[2])
                       /\ EqualLineVertex(edges[k][2], new_pair[1])}
        itk == CHOOSE k \in same : \A m \in same : k <= m
    IN IF same # {}
       THEN SubSeq(edges, 1, itk - 1) \o SubSeq(edges, itk + 1, Len(edges))
       ELSE IF ~ EqualLineVertex(new_pair[1], new_pair[2])
            THEN Append(edges, new_pair)
            ELSE edges

\* lines 544-561: the edges after the fragments i..Len(polygons)
RECURSIVE CollectEdges(_, _, _)
CollectEdges(edges, polygons, i) ==
    LET pts == polygons[i]
        RECURSIVE Pairs(_, _)
        Pairs(es, k) ==
            IF k >= Len(pts) THEN check_redun_pair(es, <<pts[1], pts[Len(pts)]>>)
            ELSE Pairs(check_redun_pair(es, <<pts[k], pts[k + 1]>>), k + 1)
    IN IF i > Len(polygons) THEN edges
       ELSE CollectEdges(IF Len(pts) < 2 THEN edges ELSE Pairs(edges, 1),
                         polygons, i + 1)

\* lines 563-617: the walk over the edges left.  w holds edges,
\* tmp_polygon, pair_tail, area_max and polygon, and loops, the polygons
\* handed to calc_poly_area so far.  When no edge has an end equal to
\* pair_tail the polygon is closed off and the walk starts again from the
\* last edge, which is not erased: if that edge has no end equal to its
\* second point either, the loop of line 571 never ends (diverges).
RECURSIVE Walk(_)
Walk(w) ==
    LET Touching(pt) == {k \in DOMAIN w.edges :
                            \/ EqualLineVertex(pt, w.edges[k][1])
                            \/ EqualLineVertex(pt, w.edges[k][2])}
        found == Touching(w.pair_tail)
        itp   == CHOOSE k \in found : \A m \in found : k <= m
        done  == Append(w.tmp_polygon, w.pair_tail)
        last  == IF w.edges = <<>> THEN w.tmp_polygon ELSE done
        larger == calc_poly_area2(last) > w.area_max
        closed == [w EXCEPT !.area_max = IF larger THEN calc_poly_area2(last) ELSE @,
                            !.polygon  = IF larger THEN last ELSE @,
                            !.loops    = Append(@, last)]
        first_pair == w.edges[Len(w.edges)]
    IN IF w.edges = <<>> THEN closed
       ELSE IF found # {}
            THEN Walk([w EXCEPT
                    !.tmp_polygon = done,
                    !.pair_tail = IF EqualLineVertex(w.pair_tail, w.edges[itp][1])
                                  THEN w.edges[itp][2] ELSE w.edges[itp][1],
                    !.edges = SubSeq(@, 1, itp - 1) \o SubSeq(@, itp + 1, Len(@))])
            ELSE IF Touching(first_pair[2]) = {}
                 THEN [closed EXCEPT !.diverges = TRUE]
                 ELSE Walk([closed EXCEPT !.tmp_polygon = <<first_pair[1]>>,
                                          !.pair_tail = first_pair[2]])

\* roomVertex::mergePolygons of a vertex with the fragments polygons and the
\* polygon polygon; edges is not empty at line 563
MergePolygons(polygons, polygon) ==
    LET edges == CollectEdges(<<>>, polygons, 1)
        first_pair == edges[Len(edges)]
    IN IF Len(polygons) < 2
       THEN [polygon |-> polygons[1], loops |-> <<>>, diverges |-> FALSE]
       ELSE Walk([edges |-> edges, tmp_polygon |-> <<first_pair[1]>>,
                  pair_tail |-> first_pair[2], area_max |-> 0,
                  polygon |-> polygon, loops |-> <<>>, diverges |-> FALSE])

\* AreaGraph::mergeRoomPolygons; args is left with the loops of the walks
MergeRoomPolygons ==
    /\ pc = "given"
    /\ \E r \in {[v \in Range(originSet) |->
                    MergePolygons(roomVertex[v].polygons, roomVertex[v].polygon)]} :
         /\ roomVertex' = [v \in DOMAIN roomVertex |->
               IF v \in Range(originSet)
               THEN [roomVertex[v] EXCEPT !.polygon = r[v].polygon]
               ELSE roomVertex[v]]
         /\ args' = [v \in Range(originSet) |-> r[v].loops]
         /\ pc' = IF \E v \in Range(originSet) : r[v].diverges
                  THEN "looping" ELSE "polygonsMerged"
    /\ pre' = Snapshot
    /\ UNCHANGED <<passageEdge, originSet, passageEList, freed>>

\* the fragments of the model: the unit cells of a grid 5 wide and 2 high
\* with the origin on its lower edge, listed clockwise from the lower left
\* corner, the first point repeated at the end or not
MaxFragments == 3

Cell(x, y, closed) ==
    << <<x, y>>, <<x, y + 1>>, <<x + 1, y + 1>>, <<x + 1, y>> >>
       \o (IF closed THEN << <<x, y>> >> ELSE <<>>)

Cells == {Cell(x, y, closed) : x \in -1..3, y \in 0..1, closed \in BOOLEAN}

\* one vertex with up to MaxFragments fragments, of different cells
InitMergePolygons ==
    /\ \E n \in 1..MaxFragments :
         \E polygons \in [1..n -> Cells] :
            /\ \A i, k \in 1..n : i # k => polygons[i][1] # polygons[k][1]
            /\ roomVertex = <<[NewRoomVertex(0) EXCEPT !.polygons = polygons]>>
    /\ passageEdge = <<>>
    /\ originSet = <<1>>
    /\ passageEList = <<>>
    /\ freed = {}
    /\ pc = "given"
    /\ pre = [roomVertex |-> roomVertex, passageEdge |-> passageEdge,
              originSet |-> originSet, passageEList |-> passageEList]
    /\ args = <<>>

SpecMergePolygons == InitMergePolygons /\ [][MergeRoomPolygons]_vars

\* C17: every non-empty polygon written by mergeRoomPolygons has its first
\* point equal to its last, whichever loop is kept and however many loops
\* there are (the hulls written by mergeSmallAdjacentRooms are closed: C13).
C17_MergedPolygonClosed ==
    pc = "polygonsMerged" =>
        \A v \in Range(originSet) : roomVertex[v].polygon = <<>>
                                    \/ IsClosed(roomVertex[v].polygon)

\* C20: for a vertex with two or more fragments, the polygon left by
\* mergeRoomPolygons is a traced loop that no other traced loop exceeds in
\* area, the area being the absolute value of the shoelace formula.
C20_LargestLoopKept ==
    pc = "polygonsMerged" =>
        \A v \in Range(originSet) :
            Len(roomVertex[v].polygons) >= 2 =>
                /\ roomVertex[v].polygon \in Range(args[v])
                /\ \A k \in DOMAIN args[v] :
                      CalcPolyArea2(args[v][k]) <= CalcPolyArea2(roomVertex[v].polygon)
\* ============================================ further claims on the model
\* C29: mergeSmallAdjacentRooms never merges a small room into a neighbour
\* whose centre distance to it is maxMergeDistance or more, whatever the
\* neighbour's area.
C29_NoMergeBeyondMaxDistance ==
    pc \in {"merged", "aborted"} =>
        \A i \in DOMAIN args.merges : args.merges[i].dist < args.maxDist

\* C25: mergeSmallAdjacentRooms returns; the number of passes is at most the
\* number of vertices at the first call, and no merge was done in the pass
\* after which it returns.
C25_MergeTerminatesWithinBound ==
    pc \in {"merged", "aborted"} =>
        /\ pc = "merged"
        /\ args.passes <= Len(pre.originSet)
        /\ \A i \in DOMAIN args.merges : args.merges[i].pass < args.passes

\* C24: removeDuplicatePolygons puts no vertex on the removal list twice and
\* transfers no passages to a vertex that is already on the removal list,
\* whatever the number of equal polygons and the order of their roomIds.
C24_DiscardedOnce ==
    pc \in {"deduped", "dedupedTwice", "aborted"} =>
        /\ NoDup(args.toRemove)
        /\ \A k \in DOMAIN args.transfers :
              \A m \in 1..(k - 1) : args.transfers[m][1] # args.transfers[k][2]

\* C26: the boundary walk of mergeRoomPolygons ends for every vertex with
\* two or more fragments, whatever the coordinates of the points.
C26_WalkTerminates ==
    pc # "looping"

\* the proper edges of one fragment as the loop of lines 553-560 pairs its
\* points, each edge as the set of its two end points
FragmentEdges(pts) ==
    {e \in {{pts[k], pts[k + 1]} : k \in 1..(Len(pts) - 1)}
               \cup {{pts[1], pts[Len(pts)]}} : Cardinality(e) = 2}

\* C27: mergeRoomPolygons takes every point to be equal to itself, the
\* origin included: an edge contributed by exactly two fragments is not
\* among the edges left for the walk.
C27_SharedEdgeCancelled ==
    pc \in {"polygonsMerged", "looping"} =>
        \A v \in Range(pre.originSet) :
            LET polygons == pre.roomVertex[v].polygons
                edges == CollectEdges(<<>>, polygons, 1)
            IN Len(polygons) >= 2 =>
                  \A i, k \in DOMAIN polygons :
                      \A e \in FragmentEdges(polygons[i]) \cap FragmentEdges(polygons[k]) :
                          i # k /\ (\A m \in DOMAIN polygons \ {i, k} :
                                       e \notin FragmentEdges(polygons[m]))
                              => \A n \in DOMAIN edges : {edges[n][1], edges[n][2]} # e

\* the case of C28 in the polygon before the call: a closed ring of more
\* than 3 points, not approximately circular, whose seam point is at no
\* other position and is not a preserve point, and is a spike when tested
\* against the second and the second-to-last point
SeamIsSpike ==
    LET n    == Len(PolygonIn)
        ring == SubSeq(PolygonIn, 1, n - 1)
    IN /\ n > 3
       /\ PolygonIn[1] = PolygonIn[n]
       /\ \A i \in 2..(n - 1) : ~ PointsEqual(PolygonIn[i], PolygonIn[1])
       /\ ~ IsApproximatelyCircular(PolygonIn)
       /\ 1 \notin PreserveIndices(PolygonIn, args.preservePoints)
       /\ IsSpike(ring, 1, FALSE, args.angleThreshold, args.distanceThreshold, FALSE)

\* C28: removeSpikesFromPolygon takes the ring as cyclic: on a closed ring
\* of more than 3 points the seam vertex that is a spike with respect to
\* the second and the second-to-last point, and is no preserve point, is
\* removed from the result.
C28_SeamSpikeRemoved ==
    pc = "despiked" /\ SeamIsSpike => ~ HasPoint(PolygonOut, PolygonIn[1])

\* ------------------------- mergeRoomCell and prunning with neighbours
\* The graphs of C23: no tombstone, every roomId -1 or a room number, and
\* neighbours that are vertices of the collection (any symmetric relation
\* between different vertices); no passages.
InitRoomCell ==
    /\ \E nv \in 1..MaxVertices :
         \E rid \in [1..nv -> RoomIds],
            adj \in SUBSET {e \in SUBSET (1..nv) : Cardinality(e) = 2} :
            roomVertex = [v \in 1..nv |->
                [NewRoomVertex(rid[v]) EXCEPT
                    !.neighbours = {w \in 1..nv : {v, w} \in adj}]]
    /\ originSet = [i \in DOMAIN roomVertex |-> i]
    /\ passageEdge = <<>>
    /\ passageEList = <<>>
    /\ freed = {}
    /\ pc = "areasMerged"
    /\ pre = [roomVertex |-> roomVertex, passageEdge |-> passageEdge,
              originSet |-> originSet, passageEList |-> passageEList]
    /\ args = <<>>

NextRoomCell ==
    \/ MergeRoomCell
    \/ Prunning

SpecRoomCell == InitRoomCell /\ [][NextRoomCell]_vars

\* C23: one hop of redirection is enough.  After mergeRoomCell the parentV
\* of every tombstoned vertex has a roomId of 0 or more, and after the
\* following prunning no vertex of the collection has a neighbour with
\* roomId -2.
C23_SingleHopSuffices ==
    /\ pc = "cellsMerged" =>
          \A v \in Range(originSet) :
              roomVertex[v].roomId = -2 =>
                  /\ roomVertex[v].parentV \in DOMAIN roomVertex
                  /\ roomVertex[roomVertex[v].parentV].roomId >= 0
    /\ pc = "pruned" =>
          \A v \in Range(originSet) :
              \A n \in roomVertex[v].neighbours :
                  n \in DOMAIN roomVertex /\ roomVertex[n].roomId # -2

\* prunning has redirected a neighbour of a vertex that it leaves in the
\* collection
C23_Witness ==
    /\ pc = "pruned"
    /\ \E v \in Range(originSet) :
          \E n \in pre.roomVertex[v].neighbours :
              /\ pre.roomVertex[n].roomId = -2
              /\ pre.roomVertex[n].parentV \in roomVertex[v].neighbours

\* ================================== exportToOsmAG: the nodes and the ways
\* In this specification a coordinate counts halves of the tolerance 1e-6 of
\* GeometryUtils::equalLineVertex, so that different points can be equal
\* under it: two points are equal when they are less than 2 apart.
MaxNodePoints == 4

NodePoints == {<<x, 0>> : x \in {0, 1, 2, 4}}

\* GeometryUtils::equalLineVertex on the points of this specification
NodePointsEqual(a, b) == Dist2(a, b) < 4

\* mutant of NodeFor: every point gets a node of its own
NodeForFresh(st, point) ==
    {[st |-> [st EXCEPT !.nextId = @ - 1,
                        !.pointToNodeId = (point :> st.nextId) @@ @,
                        !.nodes = Append(@, [id |-> st.nextId, point |-> point,
                                             root |-> FALSE])],
      id |-> st.nextId]}

\* lines 369-388, 391-407, 438-460: the node of a point.  The loop over
\* pointToNodeId stops at the first key within the tolerance of the point,
\* in the order of the map, which the model leaves open: the outcomes are
\* one for every such key.  Without one the point becomes a key, gets
\* nextId and is written as a node.
NodeFor(st, point) ==
    LET found == {k \in DOMAIN st.pointToNodeId : NodePointsEqual(k, point)}
    IN IF found # {}
       THEN {[st |-> st, id |-> st.pointToNodeId[k]] : k \in found}
       ELSE {[st |-> [st EXCEPT !.nextId = @ - 1,
                                !.pointToNodeId = (point :> st.nextId) @@ @,
                                !.nodes = Append(@, [id |-> st.nextId, point |-> point,
                                                     root |-> FALSE])],
              id |-> st.nextId]}

\* lines 239-428: the end points of the passages of two rooms, in list
\* order.  pointA and pointB are worked out from the polygons of the two
\* rooms and the position of the passage (lines 245-365); ends gives
\* them: for rooms with points pointA is a point of roomA (lines 318, 323,
\* 349) and pointB a point of either room, or a point that was never set
\* (line 246, when no point of a room is away from pointA).
RECURSIVE PassageNodes(_, _, _)
PassageNodes(st, pl, ends) ==
    IF pl = <<>> THEN {st}
    ELSE LET p  == Head(pl)
             ca == passageEdge[p].connectedAreas
             pointA == ends[p][1]
             pointB == ends[p][2]
         IN IF Len(ca) # 2 THEN PassageNodes(st, Tail(pl), ends)
            ELSE UNION {UNION {PassageNodes(
                                  [b.st EXCEPT !.passagePoints = Append(@,
                                      [pointA |-> pointA, pointB |-> pointB,
                                       nodeIdA |-> a.id, nodeIdB |-> b.id,
                                       roomA |-> ca[1], roomB |-> ca[2]])],
                                  Tail(pl), ends)
                               : b \in IF ~ NodePointsEqual(pointA, pointB)
                                       THEN NodeFor(a.st, pointB)
                                       ELSE {[st |-> a.st, id |-> a.id]}}
                        : a \in NodeFor(st, pointA)}

\* lines 434-463: the nodes of the points of one polygon, in order
RECURSIVE PolygonNodes(_, _, _)
PolygonNodes(st, points, nodeIds) ==
    IF points = <<>> THEN {[st |-> st, nodeIds |-> nodeIds]}
    ELSE UNION {PolygonNodes(r.st, Tail(points), Append(nodeIds, r.id))
                   : r \in NodeFor(st, Head(points))}

\* lines 431-466: every room of originSet
RECURSIVE RoomNodes(_, _)
RoomNodes(st, os) ==
    IF os = <<>> THEN {st}
    ELSE UNION {RoomNodes([r.st EXCEPT !.roomVertexToNodeIds =
                                  (Head(os) :> r.nodeIds) @@ @],
                          Tail(os))
                   : r \in PolygonNodes(st, roomVertex[Head(os)].polygon, <<>>)}

\* lines 473-497: the way of a room, closed by a reference to its first
\* node when the last differs
RoomWay(st, v, wayId) ==
    LET nodeIds == st.roomVertexToNodeIds[v]
    IN [id |-> wayId,
        nd |-> IF nodeIds # <<>> /\ nodeIds[1] # nodeIds[Len(nodeIds)]
               THEN Append(nodeIds, nodeIds[1]) ELSE nodeIds,
        from |-> roomVertex[v].roomId, to |-> roomVertex[v].roomId,
        type |-> "area"]

\* lines 502-521: the way of a passage
PassageWay(pp, wayId) ==
    [id |-> wayId,
     nd |-> IF pp.nodeIdA # pp.nodeIdB THEN <<pp.nodeIdA, pp.nodeIdB>>
            ELSE <<pp.nodeIdA>>,
     from |-> roomVertex[pp.roomA].roomId, to |-> roomVertex[pp.roomB].roomId,
     type |-> "passage"]

\* lines 184-190, 473-521: the ways, rooms first; way ids count down from -1
Ways(st) ==
    [k \in 1..(Len(originSet) + Len(st.passagePoints)) |->
        IF k <= Len(originSet) THEN RoomWay(st, originSet[k], -k)
        ELSE PassageWay(st.passagePoints[k - Len(originSet)], -k)]

\* lines 118-119, 167-177, 239-525 of exportToOsmAG: the root node, the
\* nodes of the passages, the nodes of the rooms, the ways.  args is left
\* with what has been written.
ExportNodesAndWays ==
    /\ pc = "given"
    /\ \E ends \in [Range(passageEList) -> NodePoints \X NodePoints] :
         /\ \A p \in Range(passageEList) :
               ends[p][1] \in Range(roomVertex[passageEdge[p].connectedAreas[1]].polygon)
         /\ \E st \in UNION {RoomNodes(s, originSet) :
                  s \in PassageNodes(
                           [nextId |-> -2,
                            pointToNodeId |-> <<>>,
                            nodes |-> <<[id |-> -1, point |-> args.root_point,
                                         root |-> TRUE]>>,
                            passagePoints |-> <<>>,
                            roomVertexToNodeIds |-> <<>>],
                           passageEList, ends)} :
            args' = [nodes |-> st.nodes, ways |-> Ways(st),
                     passagePoints |-> st.passagePoints,
                     roomVertexToNodeIds |-> st.roomVertexToNodeIds]
    /\ pre' = Snapshot
    /\ pc' = "written"
    /\ UNCHANGED <<roomVertex, passageEdge, originSet, passageEList, freed>>

\* rooms with polygons of one or more points, MaxNodePoints points at most
\* in all, and at most one passage between two rooms: points lists the
\* points of all polygons, room[k] is the room of points[k]
InitNodes ==
    /\ \E n \in 1..MaxNodePoints :
         \E points \in [1..n -> NodePoints],
            room \in {r \in [1..n -> 1..n] :
                         /\ r[1] = 1
                         /\ \A k \in 1..(n - 1) : r[k + 1] \in {r[k], r[k] + 1}} :
            \E np \in 0..1 :
               \E ca \in [1..np -> {c \in Ascending(room[n]) : Len(c) = 2}] :
                  /\ roomVertex = [v \in 1..room[n] |->
                        [NewRoomVertex(v - 1) EXCEPT
                            !.passages = PassagesOf(v, ca, 1),
                            !.polygon  =
                                LET ks == {k \in 1..n : room[k] = v}
                                    first == CHOOSE k \in ks : \A m \in ks : k <= m
                                IN [i \in 1..Cardinality(ks) |-> points[first + i - 1]]]]
                  /\ passageEdge = [p \in 1..np |-> [connectedAreas |-> ca[p]]]
                  /\ originSet = [i \in 1..room[n] |-> i]
                  /\ passageEList = [i \in 1..np |-> i]
    /\ freed = {}
    /\ pc = "given"
    /\ pre = [roomVertex |-> roomVertex, passageEdge |-> passageEdge,
              originSet |-> originSet, passageEList |-> passageEList]
    /\ args = [root_point |-> <<0, 0>>]

SpecNodes == InitNodes /\ [][ExportNodesAndWays]_vars

\* the points of the polygons and of the passages, each with the node id
\* it was given
PointNodes ==
    UNION {{<<roomVertex[v].polygon[k], args.roomVertexToNodeIds[v][k]>> :
                k \in DOMAIN roomVertex[v].polygon} : v \in Range(originSet)}
      \cup UNION {{<<pp.pointA, pp.nodeIdA>>, <<pp.pointB, pp.nodeIdB>>} :
                     pp \in Range(args.passagePoints)}

\* node ids are -1 for the root node, written first, then -2, -3, ... in
\* the order of writing
NodeIdsCountDown ==
    /\ args.nodes[1].root
    /\ \A i \in DOMAIN args.nodes : args.nodes[i].id = -i /\ (args.nodes[i].root <=> i = 1)

\* every nd of every way is the id of a node that was written
RefsAreNodes ==
    \A w \in DOMAIN args.ways :
        \A k \in DOMAIN args.ways[w].nd :
            \E i \in DOMAIN args.nodes : args.nodes[i].id = args.ways[w].nd[k]

\* equality within the tolerance is transitive on the points of the
\* polygons and passages
EqualityTransitive ==
    \A a, b, c \in {pn[1] : pn \in PointNodes} :
        NodePointsEqual(a, b) /\ NodePointsEqual(b, c) => NodePointsEqual(a, c)

\* C21 as stated: node ids count down from -1, the root node first; two
\* points of polygons or passages have the same node id exactly when they
\* are equal within the tolerance; every nd of a way names a written node.
C21_NodeIds ==
    pc = "written" =>
        /\ NodeIdsCountDown
        /\ \A a, b \in PointNodes : a[2] = b[2] <=> NodePointsEqual(a[1], b[1])
        /\ RefsAreNodes

\* C21 amended: the same, the middle part for the files on whose points
\* equality within the tolerance is transitive.
C21_NodeIdsWhereEqualityTransitive ==
    pc = "written" =>
        /\ NodeIdsCountDown
        /\ EqualityTransitive =>
              \A a, b \in PointNodes : a[2] = b[2] <=> NodePointsEqual(a[1], b[1])
        /\ RefsAreNodes

\* two different points within the tolerance share a node, two points
\* further apart have two nodes, and a way refers to them
C21_Witness ==
    /\ pc = "written"
    /\ EqualityTransitive
    /\ \E a, b, c \in PointNodes :
          /\ a[1] # b[1] /\ a[2] = b[2]
          /\ a[2] # c[2]
    /\ \E w \in DOMAIN args.ways : Len(args.ways[w].nd) >= 2

\* ------------------- the operations of the export on a numbered graph
\* The graphs after arrangeRoomId: the vertex at position i has roomId
\* i - 1.  The polygons are closed rectangles 2 high that touch, two vertices
\* may have the same one, and one has a further point on a wall; at most one
\* passage.
LaterPolygons ==
    {<< <<0, 0>>, <<0, 2>>, <<2, 2>>, <<2, 0>>, <<0, 0>> >>,
     << <<2, 0>>, <<2, 2>>, <<4, 2>>, <<4, 0>>, <<2, 0>> >>,
     << <<0, 0>>, <<0, 2>>, <<4, 2>>, <<4, 0>>, <<0, 0>> >>,
     << <<0, 0>>, <<0, 2>>, <<2, 2>>, <<2, 1>>, <<2, 0>>, <<0, 0>> >>}

InitLater ==
    /\ \E nv \in 2..MaxVertices, np \in 0..1 :
         \E poly \in [1..nv -> LaterPolygons],
            ca \in [1..np -> {c \in Ascending(nv) : Len(c) >= 2}] :
            /\ roomVertex = [v \in 1..nv |->
                  [NewRoomVertex(v - 1) EXCEPT
                      !.passages = PassagesOf(v, ca, 1),
                      !.polygon  = poly[v]]]
            /\ passageEdge = [p \in 1..np |-> [connectedAreas |-> ca[p]]]
            /\ originSet = [i \in 1..nv |-> i]
            /\ passageEList = [i \in 1..np |-> i]
    /\ freed = {}
    /\ pc = "given"
    /\ pre = [roomVertex |-> roomVertex, passageEdge |-> passageEdge,
              originSet |-> originSet, passageEList |-> passageEList]
    /\ args = <<>>

\* OsmAGExporter.cpp, exportToOsmAG: the operations between arrangeRoomId
\* and the writing of the ways
NextLater ==
    \/ RemoveDuplicatePolygons
    \/ MergeSmallAdjacentRooms
    \/ OptimizeRoomPolygonsForPassages
    \/ SimplifyPolygons
    \/ RemoveSpikesFromPolygons

SpecLater == InitLater /\ [][NextLater]_vars

\* C30: none of removeDuplicatePolygons, mergeSmallAdjacentRooms,
\* optimizeRoomPolygonsForPassages, simplifyPolygons and
\* removeSpikesFromPolygons changes the roomId of a vertex that it leaves in
\* the collection, and the roomIds of the vertices of the collection stay
\* pairwise different.
C30_RoomIdsKept ==
    /\ \A v \in Range(originSet) :
          /\ v \in Range(pre.originSet)
          /\ roomVertex[v].roomId = pre.roomVertex[v].roomId
    /\ \A i, j \in DOMAIN originSet :
          roomVertex[originSet[i]].roomId = roomVertex[originSet[j]].roomId => i = j

\* a vertex has been removed and a vertex behind it has kept its roomId,
\* which is no longer its position
C30_Witness ==
    /\ pc \in {"deduped", "merged"}
    /\ Len(originSet) < Len(pre.originSet)
    /\ \E i \in DOMAIN originSet :
          /\ roomVertex[originSet[i]].roomId # i - 1
          /\ roomVertex[originSet[i]].roomId = pre.roomVertex[originSet[i]].roomId

\* ---------------------------------------------------------------------
\* GeometryUtils: the pixel position of the root node, the resolution and
\* the conversion to latitude/longitude
\* ---------------------------------------------------------------------

\* GeometryUtils.cpp:37, 42: the initial values of the statics holding the
\* pixel position of the root node
DefaultRootPixelX == 3804

DefaultRootPixelY == 2801

\* GeometryUtils.cpp:48: the initial value 0.044 m/pixel of the static
\* holding the resolution, in thousandths of a metre per pixel
DefaultResolution == 44

\* how far from the default pixel position the configured positions and the
\* converted points lie
MaxPixelOffset == 1

PixelXs == (DefaultRootPixelX - MaxPixelOffset)..(DefaultRootPixelX + MaxPixelOffset)

PixelYs == (DefaultRootPixelY - MaxPixelOffset)..(DefaultRootPixelY + MaxPixelOffset)

\* resolutions in thousandths of a metre per pixel
Resolutions == {DefaultResolution, 50}

\* root_lat, root_lon of the calls
RootLatLons == (0..1) \X (0..1)

\* ::wgs84::fromCartesian(reference, cartesian): the position reached from
\* reference by going cartesian[1] east and cartesian[2] north on the
\* tangent plane. Latitude and longitude are counted in the angle that one
\* thousandth of a metre subtends at the reference, so that different
\* offsets give different positions and the offset (0, 0) gives reference.
FromCartesian(reference, cartesian) ==
    <<reference[1] + cartesian[2], reference[2] + cartesian[1]>>

\* GeometryUtils::cartesianToLatLon(x, y, root_lat, root_lon). st holds the
\* function-local statics: root_pixel_x, root_pixel_y and resolution refer to
\* the statics x, y, res declared in this function (lines 36-50).
CartesianToLatLon(st, x, y, root_lat, root_lon) ==
    LET reference == <<root_lat, root_lon>>
        relativeX == (x - st.root_pixel_x) * st.resolution
        relativeY == (-(y - st.root_pixel_y)) * st.resolution
        cartesian == <<relativeX, relativeY>>
    IN FromCartesian(reference, cartesian)

\* GeometryUtils::setRootNodePixelPosition(x, y): root_pixel_x_ref and
\* root_pixel_y_ref refer to the statics x, y declared in this function
\* (lines 77-85)
SetRootNodePixelPosition ==
    /\ \E x \in PixelXs, y \in PixelYs :
          args' = [args EXCEPT !.root_pixel_x_ref = x, !.root_pixel_y_ref = y,
                               !.positionSet = TRUE]
    /\ pc' = "positionSet"
    /\ UNCHANGED <<roomVertex, passageEdge, originSet, passageEList, freed, pre>>

\* GeometryUtils::setResolution(resolution): resolution_ref refers to the
\* static res declared in this function (lines 96-99)
SetResolution ==
    /\ \E resolution \in Resolutions :
          args' = [args EXCEPT !.resolution_ref = resolution, !.resolutionSet = TRUE]
    /\ pc' = "resolutionSet"
    /\ UNCHANGED <<roomVertex, passageEdge, originSet, passageEList, freed, pre>>

\* a call of cartesianToLatLon; the call and what it returned are kept
ConvertPoint ==
    /\ \E x \in PixelXs, y \in PixelYs, root \in RootLatLons :
          args' = [args EXCEPT !.x = x, !.y = y,
                               !.root_lat = root[1], !.root_lon = root[2],
                               !.latLon = CartesianToLatLon(args, x, y, root[1], root[2])]
    /\ pc' = "converted"
    /\ UNCHANGED <<roomVertex, passageEdge, originSet, passageEList, freed, pre>>

\* the statics before the first call of any of the three functions
InitGeo ==
    /\ roomVertex = <<>>
    /\ passageEdge = <<>>
    /\ originSet = <<>>
    /\ passageEList = <<>>
    /\ freed = {}
    /\ pc = "start"
    /\ pre = Snapshot
    /\ args = [root_pixel_x |-> DefaultRootPixelX, root_pixel_y |-> DefaultRootPixelY,
               resolution |-> DefaultResolution,
               root_pixel_x_ref |-> DefaultRootPixelX,
               root_pixel_y_ref |-> DefaultRootPixelY,
               resolution_ref |-> DefaultResolution,
               positionSet |-> FALSE, resolutionSet |-> FALSE,
               x |-> DefaultRootPixelX, y |-> DefaultRootPixelY,
               root_lat |-> 0, root_lon |-> 0, latLon |-> <<0, 0>>]

NextGeo == SetRootNodePixelPosition \/ SetResolution \/ ConvertPoint

SpecGeo == InitGeo /\ [][NextGeo]_vars

\* C22: once the pixel position of the root node and the resolution have
\* been configured, a point at the configured pixel position converts to
\* exactly the root latitude and longitude passed to the conversion.
C22_ConfiguredRootConvertsToRoot ==
    (/\ pc = "converted"
     /\ args.positionSet
     /\ args.resolutionSet
     /\ args.x = args.root_pixel_x_ref
     /\ args.y = args.root_pixel_y_ref)
        => args.latLon = <<args.root_lat, args.root_lon>>

====
